---- MODULE Spec2Model ----
(***************************************************************************)
(* Model of the room-draftsman floorplan editor: the wall / opening / room *)
(* store (useFloorplanStore), the wall splitter (trySplitWalls), the       *)
(* opening drop handler of the canvas (handleDrop), the room detector      *)
(* (detectRooms, buildGraph, traceFace) and the constraint solver          *)
(* (applyConstraints) with the constraint switches of the wall panel.      *)
(*                                                                         *)
(* Units.  Points are pixel coordinates, modelled as integers.  gridSize   *)
(* pixels are one meter.  Lengths given in meters by the program (opening  *)
(* width, ceiling height) are modelled in centimeters.  Fractions (the     *)
(* split parameter t, an opening's position) are exact rationals <<n, d>>. *)
(* Areas are kept doubled (twice the shoelace area) so that they stay      *)
(* integers.  Ids produced by generateId() are only ever compared for        *)
(* equality; they are modelled by numbers, and a generated id is the least *)
(* number that occurs nowhere in the state it is generated in.             *)
(*                                                                         *)
(* Scope.  The canvas is modelled at zoom 1.  Pan and zoom, the tool mode,  *)
(* the drag of a whole wall and the fields of walls, openings and rooms    *)
(* that no modelled operation reads are left out.  The solver's sines and  *)
(* cosines are taken as exact: an angle is kept as a vector along it, and  *)
(* the sessions keep to points for which every corrected coordinate is a   *)
(* whole number.                                                           *)
(*                                                                         *)
(* Style.  A value that a piece of code computes once and reads several    *)
(* times is passed on as an operator parameter (the operators named        *)
(* ...With, ...At, ...From) instead of being bound by LET.                 *)
(***************************************************************************)
EXTENDS Integers, Sequences, FiniteSets, TLC

(***************************************************************************)
(* Program constants                                                       *)
(***************************************************************************)
EPSILON == 4

SPLIT_THRESHOLD == 8

gridSize == 100

maxSteps == 50

DefaultCeilingCm == 280

(***************************************************************************)
(* Generic helpers                                                         *)
(***************************************************************************)
Abs(n) == IF n < 0 THEN -n ELSE n

Sgn(n) == IF n < 0 THEN -1 ELSE 1

Range(s) == {s[i] : i \in DOMAIN s}

Pt(px, py) == [x |-> px, y |-> py]

\* The least element of a set of positive indices, 0 for the empty set.
MinOf(S) == IF S = {} THEN 0 ELSE CHOOSE i \in S : \A j \in S : i <= j

RECURSIVE Gcd(_, _)
Gcd(a, b) == IF b = 0 THEN a ELSE Gcd(b, a % b)

RatReduce(n, d, g) == <<n \div g, d \div g>>

\* A rational n/d (d # 0) with positive denominator, in lowest terms.
Rat(n, d) == RatReduce(Sgn(d) * n, Sgn(d) * d, Gcd(Abs(n), Abs(d)))

RatLess(a, b) == a[1] * b[2] < b[1] * a[2]

RatLeq(a, b) == a[1] * b[2] <= b[1] * a[2]

RatSub(a, b) == Rat(a[1] * b[2] - b[1] * a[2], a[2] * b[2])

RatDiv(a, b) == Rat(a[1] * b[2], a[2] * b[1])

RatMax(a, b) == IF RatLess(a, b) THEN b ELSE a

RatMin(a, b) == IF RatLess(b, a) THEN b ELSE a

(***************************************************************************)
(* roomDetection: pointsEqual, buildGraph                                  *)
(***************************************************************************)
pointsEqual(a, b) == Abs(a.x - b.x) < EPSILON /\ Abs(a.y - b.y) < EPSILON

\* `${Math.round(p.x)},${Math.round(p.y)}`: coordinates are integers here, so
\* rounding leaves them as they are and the key is the coordinate pair.
pointKey(p) == <<p.x, p.y>>

\* Index of the first registered endpoint that pointsEqual matches, 0 if none.
FirstMatch(endpoints, p) ==
  MinOf({i \in DOMAIN endpoints : pointsEqual(endpoints[i].point, p)})

getOrCreateKeyAt(endpoints, p, i) ==
  IF i # 0
  THEN [key |-> endpoints[i].key, endpoints |-> endpoints]
  ELSE [key |-> pointKey(p),
        endpoints |-> Append(endpoints, [key |-> pointKey(p), point |-> p])]

\* getOrCreateKey: the key and the endpoint list after the lookup.
getOrCreateKey(endpoints, p) == getOrCreateKeyAt(endpoints, p, FirstMatch(endpoints, p))

\* Position of the node with this key in the graph (a Map in insertion
\* order, modelled as a sequence of nodes), 0 if absent.
NodeIdx(graph, k) == MinOf({i \in DOMAIN graph : graph[i].key = k})

GraphHas(graph, k) == NodeIdx(graph, k) # 0

GraphGet(graph, k) == graph[NodeIdx(graph, k)]

GraphSetIfAbsent(graph, k, p) ==
  IF GraphHas(graph, k) THEN graph
  ELSE Append(graph, [key |-> k, point |-> p, neighbors |-> <<>>])

AddNeighborAt(graph, i, to, wallId) ==
  IF \E n \in Range(graph[i].neighbors) : n.key = to
  THEN graph
  ELSE [graph EXCEPT ![i].neighbors = Append(@, [key |-> to, wallId |-> wallId])]

\* neighbors.push({key, wallId}) unless some neighbor already has the key.
AddNeighbor(graph, from, to, wallId) ==
  AddNeighborAt(graph, NodeIdx(graph, from), to, wallId)

\* The two graph.set and the two pushes for a wall between two distinct keys.
AddEdge(graph, startKey, endKey, wall) ==
  AddNeighbor(
    AddNeighbor(
      GraphSetIfAbsent(GraphSetIfAbsent(graph, startKey, wall.start), endKey, wall.end),
      startKey, endKey, wall.id),
    endKey, startKey, wall.id)

AddWallWithKeys(st, wall, a, b) ==
  IF a.key = b.key
  THEN [endpoints |-> b.endpoints, graph |-> st.graph]
  ELSE [endpoints |-> b.endpoints, graph |-> AddEdge(st.graph, a.key, b.key, wall)]

AddWallWithStart(st, wall, a) ==
  AddWallWithKeys(st, wall, a, getOrCreateKey(a.endpoints, wall.end))

\* One iteration of the loop over the walls in buildGraph; st = [endpoints, graph].
AddWallToGraph(st, wall) ==
  AddWallWithStart(st, wall, getOrCreateKey(st.endpoints, wall.start))

\* The loop over the walls from the i-th on.  A wall registers at most two
\* endpoints; the test on st.endpoints has TLC compute st before it goes on
\* to the next wall.
RECURSIVE GraphFold(_, _, _)
GraphFold(st, walls, i) ==
  IF i > Len(walls) \/ Len(st.endpoints) > 2 * Len(walls) THEN st
  ELSE GraphFold(AddWallToGraph(st, walls[i]), walls, i + 1)

\* Rank of Math.atan2(dy, dx) in (-pi, pi]: the lower half plane, then the
\* positive x axis (angle 0, also atan2(0,0)), then the upper half plane, then
\* the negative x axis (angle pi).
AngleClass(dx, dy) ==
  IF dy < 0 THEN 0
  ELSE IF dy > 0 THEN 2
  ELSE IF dx >= 0 THEN 1 ELSE 3

AngleCmpWith(ca, cb, cross) ==
  IF ca # cb THEN (IF ca < cb THEN -1 ELSE 1)
  ELSE IF ca \in {1, 3} THEN 0
  ELSE IF cross > 0 THEN -1
  ELSE IF cross < 0 THEN 1 ELSE 0

\* Sign of atan2(ay, ax) - atan2(by, bx): -1, 0 or 1.
AngleCmp(ax, ay, bx, by) ==
  AngleCmpWith(AngleClass(ax, ay), AngleClass(bx, by), ax * by - ay * bx)

NeighborCmpWith(p, pa, pb) == AngleCmp(pa.x - p.x, pa.y - p.y, pb.x - p.x, pb.y - p.y)

\* The comparator of node.neighbors.sort in buildGraph.
NeighborCmp(graph, node, a, b) ==
  NeighborCmpWith(node.point, GraphGet(graph, a.key).point, GraphGet(graph, b.key).point)

\* Array.prototype.sort is stable: insert e after the last element that does
\* not compare greater than it.
RECURSIVE InsertSorted(_, _, _, _)
InsertSorted(graph, node, sorted, e) ==
  IF sorted = <<>> THEN <<e>>
  ELSE IF NeighborCmp(graph, node, sorted[Len(sorted)], e) <= 0
       THEN Append(sorted, e)
       ELSE Append(InsertSorted(graph, node, SubSeq(sorted, 1, Len(sorted) - 1), e),
                   sorted[Len(sorted)])

RECURSIVE SortNeighbors(_, _, _, _)
SortNeighbors(graph, node, sorted, i) ==
  IF i > Len(node.neighbors) THEN sorted
  ELSE SortNeighbors(graph, node,
                     InsertSorted(graph, node, sorted, node.neighbors[i]), i + 1)

SortAllNeighbors(raw) ==
  [i \in DOMAIN raw |-> [raw[i] EXCEPT !.neighbors = SortNeighbors(raw, raw[i], <<>>, 1)]]

buildGraph(walls) ==
  SortAllNeighbors(GraphFold([endpoints |-> <<>>, graph |-> <<>>], walls, 1).graph)

(***************************************************************************)
(* roomDetection: traceFace, signedPolygonArea, detectRooms                *)
(***************************************************************************)
\* Position of the first neighbor with this key, 0 if none (findIndex / find).
NeighborIdx(node, k) ==
  MinOf({i \in DOMAIN node.neighbors : node.neighbors[i].key = k})

\* The results of traceFace: [done, ok, path, used]; ok = FALSE stands for the
\* null return, used is what the caller's usedEdges holds afterwards.
TraceNull(path, used) == [done |-> TRUE, ok |-> FALSE, path |-> path, used |-> used]

TraceFound(path, used) == [done |-> TRUE, ok |-> TRUE, path |-> path, used |-> used]

\* The variables of traceFace at the top of the next pass of its for loop.
TraceOn(prevKey, currentKey, path, used, step) ==
  [done |-> FALSE, prevKey |-> prevKey, currentKey |-> currentKey, path |-> path,
   used |-> used, step |-> step]

\* (reverseIdx - 1 + n) % n on 0-based indices, as a 1-based index.
PrevNeighborIdx(reverseIdx, n) == (((reverseIdx - 1) - 1 + n) % n) + 1

\* After findIndex: null if prevKey is no neighbor, else on to nextNeighbor.
TraceTurn(graph, startKey, prevKey, currentKey, path, used, step, node, reverseIdx) ==
  IF reverseIdx = 0 THEN TraceNull(path, used)
  ELSE TraceOn(currentKey,
               node.neighbors[PrevNeighborIdx(reverseIdx, Len(node.neighbors))].key,
               path, used, step + 1)

\* A tracer that turns round at the free end of a wall.
TraceAroundEnd(graph, startKey, prevKey, currentKey, path, used, step, node) ==
  TraceTurn(graph, startKey, prevKey, currentKey, path, used, step, node,
            NeighborIdx(node, prevKey))

TraceAtNode(graph, startKey, prevKey, currentKey, path, used, step, node) ==
  IF Len(node.neighbors) < 2 THEN TraceNull(path, used)
  ELSE TraceTurn(graph, startKey, prevKey, currentKey, path, used, step, node,
                 NeighborIdx(node, prevKey))

\* After path.push(currentKey) and usedEdges.add(edgeKey).
TracePushed(graph, startKey, prevKey, currentKey, path, used, step) ==
  IF ~GraphHas(graph, currentKey) THEN TraceNull(path, used)
  ELSE TraceAtNode(graph, startKey, prevKey, currentKey, path, used, step,
                   GraphGet(graph, currentKey))

\* A tracer that goes on for as long as it finds half-edges it has not used.
TracePassUnbounded(graph, startKey, prevKey, currentKey, path, used, step) ==
  IF <<prevKey, currentKey>> \in used THEN TraceNull(path, used)
  ELSE IF currentKey = startKey
       THEN TraceFound(path, used \cup {<<prevKey, currentKey>>})
  ELSE TracePushed(graph, startKey, prevKey, currentKey, Append(path, currentKey),
                   used \cup {<<prevKey, currentKey>>}, step)

\* The test and the body of the for loop of traceFace, for pass `step`.
TracePass(graph, startKey, prevKey, currentKey, path, used, step) ==
  IF step >= maxSteps THEN TraceNull(path, used)
  ELSE IF <<prevKey, currentKey>> \in used THEN TraceNull(path, used)
  ELSE IF currentKey = startKey
       THEN TraceFound(path, used \cup {<<prevKey, currentKey>>})
  ELSE TracePushed(graph, startKey, prevKey, currentKey, Append(path, currentKey),
                   used \cup {<<prevKey, currentKey>>}, step)

\* The for loop of traceFace from the variables s on, up to its return.
RECURSIVE TraceLoop(_, _, _)
TraceLoop(graph, startKey, s) ==
  IF s.done THEN s
  ELSE TraceLoop(graph, startKey,
                 TracePass(graph, startKey, s.prevKey, s.currentKey, s.path, s.used,
                           s.step))

traceFace(graph, startKey, secondKey, usedEdges) ==
  TraceLoop(graph, startKey, TraceOn(startKey, secondKey, <<startKey>>, usedEdges, 0))

\* Twice signedPolygonArea(points): the shoelace sum before the division by 2.
RECURSIVE ShoelaceSum(_, _)
ShoelaceSum(points, i) ==
  IF i > Len(points) THEN 0
  ELSE points[i].x * points[(i % Len(points)) + 1].y
       - points[(i % Len(points)) + 1].x * points[i].y
       + ShoelaceSum(points, i + 1)

signedPolygonArea2(points) == ShoelaceSum(points, 1)

\* if (cycle && cycle.length >= 3) cycles.push(cycle); st = [used, cycles].
TraceRecord(st, res) ==
  [used   |-> res.used,
   cycles |-> IF res.ok /\ Len(res.path) >= 3 THEN Append(st.cycles, res.path)
              ELSE st.cycles]

\* The inner loop of detectRooms, over the neighbors of node ni (angle order)
\* from the ki-th on.
RECURSIVE TraceFromNode(_, _, _, _)
TraceFromNode(graph, st, ni, ki) ==
  IF ki > Len(graph[ni].neighbors) THEN st
  ELSE IF <<graph[ni].key, graph[ni].neighbors[ki].key>> \in st.used
       THEN TraceFromNode(graph, st, ni, ki + 1)
  ELSE TraceFromNode(graph,
                     TraceRecord(st, traceFace(graph, graph[ni].key,
                                               graph[ni].neighbors[ki].key, st.used)),
                     ni, ki + 1)

\* The outer loop of detectRooms, over the nodes (insertion order) from the
\* ni-th on.  A node starts at most one face per neighbor; the test on
\* st.cycles has TLC compute st before it goes on to the next node.
RECURSIVE TraceAll(_, _, _)
TraceAll(graph, st, ni) ==
  IF ni > Len(graph) \/ Len(st.cycles) > Len(graph) * Len(graph) THEN st
  ELSE TraceAll(graph, TraceFromNode(graph, st, ni, 1), ni + 1)

\* usedEdges and cycles of detectRooms after the tracing loop.
TraceResult(graph) == TraceAll(graph, [used |-> {}, cycles |-> <<>>], 1)

TracedCycles(graph) == TraceResult(graph).cycles

CyclePoints(graph, cycle) == [i \in DOMAIN cycle |-> GraphGet(graph, cycle[i]).point]

\* Twice the absolute polygon area of a cycle (cycleData[i].area, doubled).
CycleArea2(graph, cycle) == Abs(signedPolygonArea2(CyclePoints(graph, cycle)))

\* A scan that never moves off the face it starts at.
OuterScanStuck(areas, i, maxArea, outerIdx) == outerIdx

\* The forEach that finds outerIdx (1-based here): the first cycle of the
\* largest area; cycle 1 when every area is 0.
RECURSIVE OuterScan(_, _, _, _)
OuterScan(areas, i, maxArea, outerIdx) ==
  IF i > Len(areas) THEN outerIdx
  ELSE IF areas[i] > maxArea THEN OuterScan(areas, i + 1, areas[i], i)
  ELSE OuterScan(areas, i + 1, maxArea, outerIdx)

OuterIdx(graph, cycles) ==
  OuterScan([i \in DOMAIN cycles |-> CycleArea2(graph, cycles[i])], 1, 0, 1)

WithoutIdx(s, o) == SubSeq(s, 1, o - 1) \o SubSeq(s, o + 1, Len(s))

\* A filter that drops no face.
AllCycles(graph, cycles) == cycles

\* cycleData.filter((_, i) => i !== outerIdx)
InteriorCycles(graph, cycles) == WithoutIdx(cycles, OuterIdx(graph, cycles))

CycleWallPush(acc, node, e) ==
  IF e # 0 /\ node.neighbors[e].wallId \notin Range(acc)
  THEN Append(acc, node.neighbors[e].wallId)
  ELSE acc

CycleWallAdd(acc, node, toKey) == CycleWallPush(acc, node, NeighborIdx(node, toKey))

\* The wallIds loop: the wall of each edge of the cycle, in cycle order,
\* without repeats.  The test on acc has TLC compute acc before it goes on to
\* the next edge.
RECURSIVE CycleWallIds(_, _, _, _)
CycleWallIds(graph, cycle, i, acc) ==
  IF i > Len(cycle) \/ Len(acc) > Len(cycle) THEN acc
  ELSE CycleWallIds(graph, cycle, i + 1,
                    CycleWallAdd(acc, GraphGet(graph, cycle[i]),
                                 cycle[(i % Len(cycle)) + 1]))

\* [...ids].sort(): insertion of one id into a sorted list.  Ids are compared
\* here as numbers; only equality of the sorted lists is ever used.
RECURSIVE SortedInsert(_, _)
SortedInsert(s, e) ==
  IF s = <<>> THEN <<e>>
  ELSE IF s[Len(s)] <= e THEN Append(s, e)
  ELSE Append(SortedInsert(SubSeq(s, 1, Len(s) - 1), e), s[Len(s)])

RECURSIVE SortIds(_)
SortIds(s) ==
  IF s = <<>> THEN <<>>
  ELSE SortedInsert(SortIds(SubSeq(s, 1, Len(s) - 1)), s[Len(s)])

\* The predicate of existingRooms.find: equal length and equal sorted ids.
SameWallIds(r, wallIds) == SortIds(r.wallIds) = SortIds(wallIds)

\* Index of the first existing room with the same wall ids, 0 if none.
FindExisting(existingRooms, wallIds) ==
  MinOf({i \in DOMAIN existingRooms : SameWallIds(existingRooms[i], wallIds)})

\* `Helyiség ${idx + 1}` for the 0-based index idx.
DefaultName(idx) == "Helyiseg " \o ToString(idx + 1)

\* areaM2 < 0.01 with areaM2 = area / (gridSize * gridSize), on the doubled area.
TinyFace(area2, gs) == area2 * 100 < 2 * gs * gs

\* The object the map callback returns: existing?.x || default for each field
\* (the empty name and the height 0 are falsy); e = 0 when nothing matched.
RoomFrom(existingRooms, e, wallIds, idx, nid) ==
  [id   |-> IF e # 0 THEN existingRooms[e].id ELSE nid,
   name |-> IF e # 0 /\ existingRooms[e].name # ""
            THEN existingRooms[e].name ELSE DefaultName(idx),
   wallIds |-> wallIds,
   ceilingHeight |-> IF e # 0 /\ existingRooms[e].ceilingHeight # 0
                     THEN existingRooms[e].ceilingHeight ELSE DefaultCeilingCm]

RoomWithWallIds(existingRooms, wallIds, idx, nid) ==
  RoomFrom(existingRooms, FindExisting(existingRooms, wallIds), wallIds, idx, nid)

\* The callback of interiorCycles.map for the face at 0-based index idx; nid is
\* the id generateId() returns if it is called.  null is <<>>, a room is <<r>>.
MakeRoom(graph, cycle, idx, gs, existingRooms, nid) ==
  IF TinyFace(CycleArea2(graph, cycle), gs) THEN <<>>
  ELSE <<RoomWithWallIds(existingRooms, CycleWallIds(graph, cycle, 1, <<>>), idx, nid)>>

RoomsAdd(st, r) ==
  [rooms |-> st.rooms \o r,
   ids   |-> IF r # <<>> /\ r[1].id = Head(st.ids) THEN Tail(st.ids) ELSE st.ids]

\* map(...).filter(Boolean) over the interior faces; st = [rooms, ids], ids
\* being the ids generateId() has yet to return.
RECURSIVE RoomsFold(_, _, _, _, _, _)
RoomsFold(graph, interior, i, gs, existingRooms, st) ==
  IF i > Len(interior) THEN st
  ELSE RoomsFold(graph, interior, i + 1, gs, existingRooms,
                 RoomsAdd(st, MakeRoom(graph, interior[i], i - 1, gs, existingRooms,
                                       Head(st.ids))))

DetectFromCycles(graph, cycles, gs, existingRooms, ids) ==
  IF Len(cycles) = 0 THEN <<>>
  ELSE RoomsFold(graph, InteriorCycles(graph, cycles), 1, gs, existingRooms,
                 [rooms |-> <<>>, ids |-> ids]).rooms

DetectFromGraph(graph, gs, existingRooms, ids) ==
  DetectFromCycles(graph, TracedCycles(graph), gs, existingRooms, ids)

\* detectRooms(walls, gridSize, existingRooms): the room list; ids are the ids
\* generateId() returns, in the order of the calls.
detectRooms(walls, gs, existingRooms, ids) ==
  IF Len(walls) < 3 THEN <<>>
  ELSE DetectFromGraph(buildGraph(walls), gs, existingRooms, ids)

(***************************************************************************)
(* geometry and the canvas' hit tests                                      *)
(***************************************************************************)
\* distance(a, b) squared.
distanceSq(a, b) == (b.x - a.x) * (b.x - a.x) + (b.y - a.y) * (b.y - a.y)

\* (p - a) . (b - a)
Dot(p, a, b) == (p.x - a.x) * (b.x - a.x) + (p.y - a.y) * (b.y - a.y)

\* (p - a) x (b - a)
Cross(p, a, b) == (p.x - a.x) * (b.y - a.y) - (p.y - a.y) * (b.x - a.x)

\* Math.max(lo, Math.min(hi, v)) on rationals.
Clamp(lo, hi, v) == RatMax(lo, RatMin(hi, v))

\* projectPointOnSegment: the clamped projection parameter, a rational.
projectPointOnSegment(p, a, b) ==
  IF distanceSq(a, b) = 0 THEN <<0, 1>>
  ELSE Clamp(<<0, 1>>, <<1, 1>>, Rat(Dot(p, a, b), distanceSq(a, b)))

\* pointToSegmentDistance squared, a rational: t clamped to 0 or 1 gives the
\* distance to an end, otherwise the distance to the line, |cross| / len.
pointToSegmentDistanceSq(p, a, b) ==
  IF distanceSq(a, b) = 0 \/ Dot(p, a, b) <= 0 THEN <<distanceSq(p, a), 1>>
  ELSE IF Dot(p, a, b) >= distanceSq(a, b) THEN <<distanceSq(p, b), 1>>
  ELSE Rat(Cross(p, a, b) * Cross(p, a, b), distanceSq(a, b))

RECURSIVE FindWallScan(_, _, _, _, _, _)
\* if (d < threshold && d < bestDist) { bestDist = d; best = wall; }
FindWallPick(point, walls, thresholdSq, i, best, bestDistSq, dSq) ==
  IF RatLess(dSq, thresholdSq) /\ (best = 0 \/ RatLess(dSq, bestDistSq))
  THEN FindWallScan(point, walls, thresholdSq, i + 1, i, dSq)
  ELSE FindWallScan(point, walls, thresholdSq, i + 1, best, bestDistSq)

\* The loop of findWallAtPoint from wall i on; best = 0 is null.
FindWallScan(point, walls, thresholdSq, i, best, bestDistSq) ==
  IF i > Len(walls) THEN best
  ELSE FindWallPick(point, walls, thresholdSq, i, best, bestDistSq,
                    pointToSegmentDistanceSq(point, walls[i].start, walls[i].end))

\* findWallAtPoint: index of the closest wall nearer than threshold, 0 if none.
findWallAtPoint(point, walls, threshold) ==
  FindWallScan(point, walls, <<threshold * threshold, 1>>, 1, 0, <<0, 1>>)

(***************************************************************************)
(* useFloorplanStore: pointOnWallInterior, trySplitWalls                   *)
(***************************************************************************)
\* t = dot / lenSq; t <= 0.02 or t >= 0.98 is null; the distance from p to its
\* projection is |cross| / len.  The result is [hit, t]; hit = FALSE is null.
PointOnInteriorWith(lenSq, dot, cross, threshold) ==
  IF lenSq = 0 THEN [hit |-> FALSE, t |-> <<0, 1>>]
  ELSE IF 50 * dot <= lenSq \/ 50 * dot >= 49 * lenSq
       THEN [hit |-> FALSE, t |-> <<0, 1>>]
  ELSE [hit |-> cross * cross < threshold * threshold * lenSq,
        t   |-> Rat(dot, lenSq)]

pointOnWallInterior(p, wall, threshold) ==
  PointOnInteriorWith(distanceSq(wall.start, wall.end), Dot(p, wall.start, wall.end),
                      Cross(p, wall.start, wall.end), threshold)

\* A split point that ignores t.
SplitPointAtStart(w, t) == w.start

\* splitPoint = w.start + t * (w.end - w.start).  The plans explored keep the
\* split points on integer coordinates, where the division is exact.
SplitPoint(w, t) ==
  Pt(w.start.x + (t[1] * (w.end.x - w.start.x)) \div t[2],
     w.start.y + (t[1] * (w.end.y - w.start.y)) \div t[2])

\* A re-parenting that keeps the opening's position on the original wall.
ReassignOpeningSamePosition(o, w, t, id1, id2) ==
  IF o.wallId # w.id THEN o
  ELSE IF RatLess(o.position, t) THEN [o EXCEPT !.wallId = id1]
       ELSE [o EXCEPT !.wallId = id2]

\* The callback of openings.map for a split of wall w at t into id1 and id2.
ReassignOpening(o, w, t, id1, id2) ==
  IF o.wallId # w.id THEN o
  ELSE IF RatLess(o.position, t)
       THEN [o EXCEPT !.wallId = id1, !.position = RatDiv(o.position, t)]
       ELSE [o EXCEPT !.wallId = id2,
                      !.position = RatDiv(RatSub(o.position, t), RatSub(<<1, 1>>, t))]

\* Index of the first wall whose interior the endpoint touches, 0 if none.
FirstSplitIdx(endpoint, walls) ==
  MinOf({i \in DOMAIN walls : pointOnWallInterior(endpoint, walls[i], SPLIT_THRESHOLD).hit})

\* openings.map(...) and walls.splice(i, 1, wall1, wall2).
SplitInto(st, i, w, t, wall1, wall2) ==
  [walls    |-> SubSeq(st.walls, 1, i - 1) \o <<wall1, wall2>>
                \o SubSeq(st.walls, i + 1, Len(st.walls)),
   openings |-> [k \in DOMAIN st.openings |->
                   ReassignOpening(st.openings[k], w, t, wall1.id, wall2.id)],
   ids      |-> Tail(Tail(st.ids))]

SplitWallAt(st, i, w, t) ==
  SplitInto(st, i, w, t,
            [w EXCEPT !.id = st.ids[1], !.end = SplitPoint(w, t)],
            [w EXCEPT !.id = st.ids[2], !.start = SplitPoint(w, t)])

SplitAtIdx(st, endpoint, i) ==
  IF i = 0 THEN st
  ELSE SplitWallAt(st, i, st.walls[i],
                   pointOnWallInterior(endpoint, st.walls[i], SPLIT_THRESHOLD).t)

\* The inner loop of trySplitWalls for one endpoint; st = [walls, openings,
\* ids], ids being the ids generateId() has yet to return.
SplitAtEndpoint(st, endpoint) == SplitAtIdx(st, endpoint, FirstSplitIdx(endpoint, st.walls))

\* A splitter whose loop for the start goes on to a second wall after its
\* first split (no break).
trySplitWallsNoBreak(newWall, existingWalls, existingOpenings, ids) ==
  SplitAtEndpoint(
    SplitAtEndpoint(
      SplitAtEndpoint([walls |-> existingWalls, openings |-> existingOpenings,
                       ids |-> ids],
                      newWall.start),
      newWall.start),
    newWall.end)

\* trySplitWalls(newWall, existingWalls, existingOpenings); the result is
\* [walls, openings, ids].
trySplitWalls(newWall, existingWalls, existingOpenings, ids) ==
  SplitAtEndpoint(
    SplitAtEndpoint([walls |-> existingWalls, openings |-> existingOpenings,
                     ids |-> ids],
                    newWall.start),
    newWall.end)

(***************************************************************************)
(* The store: state                                                        *)
(***************************************************************************)
\* Walls are [id, start, end, constraints], openings [id, type, wallId,
\* width, position] (width in cm, position a rational), rooms [id, name,
\* wallIds, ceilingHeight] (ceilingHeight in cm).  The remaining fields of
\* the program's records (photos, U-values, heights, ...) are carried along
\* untouched by every operation modelled here and are left out.
\* The selected ids are 0 for null.  recalcPending is TRUE between a render
\* with a new wallFingerprint and the run of the effect that calls recalcRooms.
\* The most ids one operation generates in the explorations below.
MaxFresh == 8

VARIABLES walls, openings, rooms, selectedWallId, selectedOpeningId, selectedRoomId,
          recalcPending

vars == <<walls, openings, rooms, selectedWallId, selectedOpeningId, selectedRoomId,
          recalcPending>>

selection == <<selectedWallId, selectedOpeningId, selectedRoomId>>

WallIds(ws) == {ws[i].id : i \in DOMAIN ws}

OpeningIds(os) == {os[i].id : i \in DOMAIN os}

RoomIds(rs) == {rs[i].id : i \in DOMAIN rs}

\* wallFingerprint of Index: the ids and rounded endpoints of the walls.
wallFingerprint(ws) ==
  [i \in DOMAIN ws |-> <<ws[i].id, ws[i].start.x, ws[i].start.y, ws[i].end.x, ws[i].end.y>>]

RoomWallIds(rs) == UNION {Range(rs[i].wallIds) : i \in DOMAIN rs}

\* The walls that the constraints of the walls refer to.
RefWallIds(ws) ==
  UNION {{ws[i].constraints[k].refWallId : k \in DOMAIN ws[i].constraints} : i \in DOMAIN ws}

\* Every id that occurs in the state.
UsedIds ==
  WallIds(walls) \cup OpeningIds(openings) \cup {openings[i].wallId : i \in DOMAIN openings}
  \cup RefWallIds(walls)
  \cup RoomIds(rooms) \cup RoomWallIds(rooms)
  \cup {selectedWallId, selectedOpeningId, selectedRoomId}

RECURSIVE FreshFrom(_, _, _)
FreshFrom(used, n, k) ==
  IF k = 0 THEN <<>>
  ELSE IF n \in used THEN FreshFrom(used, n + 1, k)
  ELSE <<n>> \o FreshFrom(used, n + 1, k - 1)

\* The ids the next calls of generateId() return: the least numbers not in
\* use, as many as one operation can ask for.
FreshIds == FreshFrom(UsedIds, 1, MaxFresh)

\* initialState of the store.
Init ==
  /\ walls = <<>>
  /\ openings = <<>>
  /\ rooms = <<>>
  /\ selectedWallId = 0
  /\ selectedOpeningId = 0
  /\ selectedRoomId = 0
  /\ recalcPending = FALSE

\* ------------------------------------------------------------------------
\* constraintSolver.ts
\* ------------------------------------------------------------------------

\* A constraint record of a wall: refWallId is 0 and fixedLengthCm is
\* NoLength where the field is absent.
NoLength == 0 - 1

Constraint(type, refWallId, fixedLengthCm) ==
  [type |-> type, refWallId |-> refWallId, fixedLengthCm |-> fixedLengthCm]

\* A solver that fixes the length first and the direction last.
fixedLengthFirst(type) ==
  CASE type = "fixedLength" -> 0
    [] type = "perpendicular" -> 1
    [] type = "parallel" -> 2
    [] type \in {"horizontal", "vertical"} -> 3
    [] OTHER -> 99

priorityOf(type) ==
  CASE type = "perpendicular" -> 0
    [] type = "parallel" -> 1
    [] type \in {"horizontal", "vertical"} -> 2
    [] type = "fixedLength" -> 3
    [] OTHER -> 99

WithPriority(cs, k) == SelectSeq(cs, LAMBDA c : priorityOf(c.type) = k)

\* A solver that applies the constraints in the order of the list.
KeepListOrder(cs) == cs

\* [...wall.constraints].sort((a, b) => priorityOf(a.type) - priorityOf(b.type)):
\* the sort is stable, constraints of one priority keep their order.
SortByPriority(cs) ==
  WithPriority(cs, 0) \o WithPriority(cs, 1) \o WithPriority(cs, 2)
    \o WithPriority(cs, 3) \o WithPriority(cs, 99)

RECURSIVE SqrtFrom(_, _)
SqrtFrom(n, x) ==
  IF (x + n \div x) \div 2 >= x THEN x ELSE SqrtFrom(n, (x + n \div x) \div 2)

\* The whole part of Math.sqrt(n).
FloorSqrt(n) == IF n = 0 THEN 0 ELSE SqrtFrom(n, n)

\* Math.sqrt of a perfect square; no value is chosen for another number, so
\* that a length the model cannot represent is an error, not a rounded value.
ExactSqrt(n) == CHOOSE k \in {FloorSqrt(n)} : k * k = n

\* A quotient that is a whole number.
ExactDiv(a, b) == CHOOSE q \in {Sgn(a) * Sgn(b) * (Abs(a) \div Abs(b))} : q * b = a

\* An angle is kept as a vector <<vx, vy>> that points along it: its cosine
\* and sine are vx / |v| and vy / |v|.  angleBetweenPoints(start, end) is
\* Math.atan2 of the difference, and Math.atan2(0, 0) is 0.
WallDir(w) ==
  IF w.start = w.end THEN <<1, 0>>
  ELSE <<w.end.x - w.start.x, w.end.y - w.start.y>>

\* The angle plus Math.PI / 2.
Perp(dir) == <<0 - dir[2], dir[1]>>

\* anchor + (dirX, dirY) * proj, where proj is dotp / |dir|, or the fallback
\* distance if Math.abs(proj) < 1.
ProjectWith(anchor, dir, dotp, lenSq, fallbackSq) ==
  IF dotp * dotp < lenSq
  THEN Pt(anchor.x + ExactDiv(dir[1] * ExactSqrt(fallbackSq), ExactSqrt(lenSq)),
          anchor.y + ExactDiv(dir[2] * ExactSqrt(fallbackSq), ExactSqrt(lenSq)))
  ELSE Pt(anchor.x + ExactDiv(dir[1] * dotp, lenSq),
          anchor.y + ExactDiv(dir[2] * dotp, lenSq))

\* projectOnAngle: the point of the line through the anchor along dir that
\* is nearest to the target; the fallback distance along dir where the
\* projection is shorter than a pixel.
projectOnAngle(anchor, target, dir, fallbackSq) ==
  ProjectWith(anchor, dir,
              (target.x - anchor.x) * dir[1] + (target.y - anchor.y) * dir[2],
              dir[1] * dir[1] + dir[2] * dir[2],
              fallbackSq)

\* walls.find(w => w.id === id): its index, 0 where there is none.
FindWallIdx(ws, id) == MinOf({i \in DOMAIN ws : ws[i].id = id})

ProjectOnRef(anchor, target, ws, refIdx, turned, distSq) ==
  IF refIdx = 0
  THEN target
  ELSE projectOnAngle(anchor, target,
                      IF turned THEN Perp(WallDir(ws[refIdx]))
                      ELSE WallDir(ws[refIdx]),
                      distSq)

\* anchor + (cos a, sin a) * len with a = Math.atan2(dy, dx).
AlongWith(anchor, dx, dy, len, dist) ==
  IF dist = 0
  THEN Pt(anchor.x + len, anchor.y)
  ELSE Pt(anchor.x + ExactDiv(dx * len, dist),
          anchor.y + ExactDiv(dy * len, dist))

SetLength(anchor, target, len) ==
  AlongWith(anchor, target.x - anchor.x, target.y - anchor.y, len,
            ExactSqrt(distanceSq(anchor, target)))

\* One case of the switch in applyConstraints.
ApplyOne(c, anchor, target, ws, gs, distSq) ==
  CASE c.type = "perpendicular" ->
         ProjectOnRef(anchor, target, ws, FindWallIdx(ws, c.refWallId), TRUE, distSq)
    [] c.type = "parallel" ->
         ProjectOnRef(anchor, target, ws, FindWallIdx(ws, c.refWallId), FALSE, distSq)
    [] c.type = "horizontal" -> Pt(target.x, anchor.y)
    [] c.type = "vertical" -> Pt(anchor.x, target.y)
    [] c.type = "fixedLength" ->
         IF c.fixedLengthCm = NoLength
         THEN target
         ELSE SetLength(anchor, target, ExactDiv(c.fixedLengthCm * gs, 100))
    [] OTHER -> target

RECURSIVE ApplySorted(_, _, _, _, _, _)
ApplySorted(cs, anchor, target, ws, gs, distSq) ==
  IF cs = <<>>
  THEN target
  ELSE ApplySorted(Tail(cs), anchor,
                   ApplyOne(Head(cs), anchor, target, ws, gs, distSq),
                   ws, gs, distSq)

OtherEndpoint(movingEndpoint) == IF movingEndpoint = "end" THEN "start" ELSE "end"

\* applyConstraints(wall, walls, gridSize, movingEndpoint): the corrected
\* position of the moving endpoint.
applyConstraints(wall, ws, gs, movingEndpoint) ==
  IF Len(wall.constraints) = 0
  THEN wall[movingEndpoint]
  ELSE ApplySorted(SortByPriority(wall.constraints),
                   wall[OtherEndpoint(movingEndpoint)], wall[movingEndpoint],
                   ws, gs,
                   distanceSq(wall[OtherEndpoint(movingEndpoint)],
                              wall[movingEndpoint]))

\* findConnectedWalls(wall, walls): the ids of the other walls with an
\* endpoint within a pixel of an endpoint of the wall.
NearPoints(a, b) == distanceSq(a, b) < 1

findConnectedWalls(wall, ws) ==
  {ws[i].id : i \in {k \in DOMAIN ws :
      /\ ws[k].id # wall.id
      /\ \/ NearPoints(wall.start, ws[k].start)
         \/ NearPoints(wall.start, ws[k].end)
         \/ NearPoints(wall.end, ws[k].start)
         \/ NearPoints(wall.end, ws[k].end)}}

(***************************************************************************)
(* Wall operations                                                         *)
(***************************************************************************)
\* Bounds of the exploration: the number of walls and of openings.
MaxWalls == 4

MaxOpenings == 2

\* Canvas constants: the shortest wall the draw tool accepts, the distance
\* under which a dragged endpoint takes other endpoints along, the drop hit
\* radius and the click hit radius at zoom 1, the default widths in cm, the clamp of a dropped position
\* and the range of the position slider in percent, the widest opening a drop
\* accepts in percent of the wall.
MinDrawLength == 5

CONN_THRESHOLD == 1

DropThreshold == 20

SelectThreshold == 8

DoorWidthCm == 90

WindowWidthCm == 120

MinPosPercent == 5

MaxPosPercent == 95

MaxWidthPercent == 90

\* The setState callback of addWall for the new wall.
addWallWith(newWall, splitResult) ==
  [walls    |-> Append(splitResult.walls, newWall),
   openings |-> splitResult.openings]

addWallNew(ws, os, newWall, ids) == addWallWith(newWall, trySplitWalls(newWall, ws, os, ids))

\* addWall({start, end}): generateId() for the wall, then the ids of the split.
\* The result is [walls, openings].
addWall(ws, os, start, end, ids) ==
  addWallNew(ws, os,
             [id |-> Head(ids), start |-> start, end |-> end, constraints |-> <<>>],
             Tail(ids))

\* The state after addWall, in an exploration that stops at cap walls.
AddWallCommitUpTo(res, cap) ==
  /\ Len(res.walls) <= cap
  /\ walls' = res.walls
  /\ openings' = res.openings
  /\ selectedWallId' = res.walls[Len(res.walls)].id
  /\ selectedOpeningId' = 0
  /\ recalcPending' = (wallFingerprint(res.walls) # wallFingerprint(walls))
  /\ UNCHANGED <<rooms, selectedRoomId>>

AddWallCommit(res) == AddWallCommitUpTo(res, MaxWalls)

\* A draw tool that hands every pair of clicks to addWall.
AddWallUnchecked(start, end) ==
  /\ ~recalcPending
  /\ AddWallCommit(addWall(walls, openings, start, end, FreshIds))

\* The second click of the draw tool (handlePointerDown): a wall from the
\* first click's point to this one is added if it is longer than 5 pixels;
\* otherwise only the pending first point is dropped.  The points are as the
\* snapping left them.
AddWall(start, end) ==
  /\ ~recalcPending
  /\ IF distanceSq(start, end) > MinDrawLength * MinDrawLength
     THEN AddWallCommit(addWall(walls, openings, start, end, FreshIds))
     ELSE UNCHANGED vars

\* The wall of updateWall after the spread of the updates: with constraints,
\* its end is the one applyConstraints returns, whichever endpoint was given.
Constrained(updated, ws) ==
  IF Len(updated.constraints) > 0
  THEN [updated EXCEPT !.end = applyConstraints(updated, ws, gridSize, "end")]
  ELSE updated

\* A map callback without the test of the id: the update goes to every wall.
updateWallMapAny(w, ws, id, part, p) ==
  Constrained(IF part = "start" THEN [w EXCEPT !.start = p]
              ELSE [w EXCEPT !.end = p], ws)

\* The callback of s.walls.map in updateWall(id, {start: p}) or
\* updateWall(id, {end: p}).
updateWallMap(w, ws, id, part, p) ==
  IF w.id # id THEN w
  ELSE Constrained(IF part = "start" THEN [w EXCEPT !.start = p]
                   ELSE [w EXCEPT !.end = p], ws)

updateWall(ws, id, part, p) ==
  [i \in DOMAIN ws |-> updateWallMap(ws[i], ws, id, part, p)]

\* distance(a, b) < CONN_THRESHOLD
Connected(a, b) == distanceSq(a, b) < CONN_THRESHOLD * CONN_THRESHOLD

EndpointsAt(w, grabbed) ==
  (IF Connected(grabbed, w.start)
   THEN <<[wallId |-> w.id, endpoint |-> "start"]>> ELSE <<>>)
  \o (IF Connected(grabbed, w.end)
      THEN <<[wallId |-> w.id, endpoint |-> "end"]>> ELSE <<>>)

\* connectedEndpoints of handlePointerDown: the endpoints of the other walls
\* that are at the grabbed point, in the order of the wall list.
RECURSIVE connectedEndpoints(_, _, _)
connectedEndpoints(ws, clickedId, grabbed) ==
  IF ws = <<>> THEN <<>>
  ELSE (IF Head(ws).id = clickedId THEN <<>> ELSE EndpointsAt(Head(ws), grabbed))
       \o connectedEndpoints(Tail(ws), clickedId, grabbed)

\* The onUpdateWall calls of a pointer move for the connected endpoints, one
\* after the other: each gets the snapped point.
RECURSIVE FollowDrag(_, _, _)
FollowDrag(ws, conns, p) ==
  IF conns = <<>> THEN ws
  ELSE FollowDrag(updateWall(ws, Head(conns).wallId, Head(conns).endpoint, p),
                  Tail(conns), p)

\* The walls after the drag of one endpoint of wall `clicked` to p: updateWall
\* on the dragged wall, then on every connected endpoint.
dragEndpoint(ws, clicked, grabbed, part, p) ==
  FollowDrag(updateWall(ws, clicked.id, part, p),
             connectedEndpoints(ws, clicked.id, grabbed), p)

MoveEndpointOf(clicked, from, part, p) ==
  /\ (IF part = "start" THEN clicked.start ELSE clicked.end) = from
  /\ walls' = dragEndpoint(walls, clicked, from, part, p)
  /\ selectedWallId' = clicked.id
  /\ selectedOpeningId' = 0
  /\ recalcPending' = (wallFingerprint(walls') # wallFingerprint(walls))
  /\ UNCHANGED <<openings, rooms, selectedRoomId>>

\* A drag in select mode: the pointer goes down on the endpoint `part` of the
\* wall found at `from` (handlePointerDown selects the wall and notes the
\* endpoints connected to the grabbed one) and moves to the grid point p
\* (handlePointerMove).
MoveEndpoint(part, from, p) ==
  /\ ~recalcPending
  /\ findWallAtPoint(from, walls, SelectThreshold) # 0
  /\ MoveEndpointOf(walls[findWallAtPoint(from, walls, SelectThreshold)], from, part, p)

deleteWallWalls(ws, id) == SelectSeq(ws, LAMBDA w : w.id # id)

\* A wall deletion that leaves the wall's openings behind.
deleteWallKeepsOpenings(os, id) == os

deleteWallOpenings(os, id) == SelectSeq(os, LAMBDA o : o.wallId # id)

\* A wall deletion that also drops the rooms that list the wall.
DeleteWallAndRooms(id) ==
  /\ ~recalcPending
  /\ id \in WallIds(walls)
  /\ selectedWallId = id
  /\ walls' = deleteWallWalls(walls, id)
  /\ openings' = deleteWallOpenings(openings, id)
  /\ rooms' = SelectSeq(rooms, LAMBDA r : id \notin Range(r.wallIds))
  /\ selectedWallId' = 0
  /\ selectedOpeningId' = 0
  /\ recalcPending' = (wallFingerprint(walls') # wallFingerprint(walls))
  /\ UNCHANGED selectedRoomId

\* The delete button of the wall editor, shown for the selected wall.
DeleteWall(id) ==
  /\ ~recalcPending
  /\ id \in WallIds(walls)
  /\ selectedWallId = id
  /\ walls' = deleteWallWalls(walls, id)
  /\ openings' = deleteWallOpenings(openings, id)
  /\ selectedWallId' = 0
  /\ selectedOpeningId' = 0
  /\ recalcPending' = (wallFingerprint(walls') # wallFingerprint(walls))
  /\ UNCHANGED <<rooms, selectedRoomId>>

(***************************************************************************)
(* The constraint editor of the wall panel                                 *)
(***************************************************************************)
\* A click in select mode on a wall, without a pointer move: selectWall.
SelectWall(at) ==
  /\ ~recalcPending
  /\ findWallAtPoint(at, walls, SelectThreshold) # 0
  /\ selectedWallId' = walls[findWallAtPoint(at, walls, SelectThreshold)].id
  /\ selectedOpeningId' = 0
  /\ UNCHANGED <<walls, openings, rooms, selectedRoomId, recalcPending>>

hasConstraint(cs, type) == \E k \in DOMAIN cs : cs[k].type = type

hasRefConstraint(cs, type, refId) ==
  \E k \in DOMAIN cs : cs[k].type = type /\ cs[k].refWallId = refId

\* Math.round of the square root of n * a^2 / b^2.
RoundSqrt(n, a, b) == (FloorSqrt((4 * n * a * a) \div (b * b)) + 1) \div 2

\* Math.round(lengthM * 100) with lengthM = wallLength(wall) / gridSize.
RoundedLengthCm(wall, gs) ==
  RoundSqrt(distanceSq(wall.start, wall.end), 100 \div Gcd(100, gs), gs \div Gcd(100, gs))

Conflicts(type, c) ==
  \/ type = "horizontal" /\ c.type = "vertical"
  \/ type = "vertical" /\ c.type = "horizontal"

\* toggleSimpleConstraint(type): the new constraint list of the wall.
toggleSimpleConstraint(wall, type, gs) ==
  IF hasConstraint(wall.constraints, type)
  THEN SelectSeq(wall.constraints, LAMBDA c : c.type # type)
  ELSE Append(SelectSeq(wall.constraints, LAMBDA c : ~Conflicts(type, c)),
              Constraint(type, 0,
                         IF type = "fixedLength" THEN RoundedLengthCm(wall, gs)
                         ELSE NoLength))

\* toggleRefConstraint(type, refWallId): the new constraint list of the wall.
toggleRefConstraint(wall, type, refWallId) ==
  IF hasRefConstraint(wall.constraints, type, refWallId)
  THEN SelectSeq(wall.constraints,
                 LAMBDA c : ~(c.type = type /\ c.refWallId = refWallId))
  ELSE Append(SelectSeq(wall.constraints, LAMBDA c : c.type # type),
              Constraint(type, refWallId, NoLength))

\* updateFixedLength(val): the new constraint list of the wall.
updateFixedLength(wall, val) ==
  [k \in DOMAIN wall.constraints |->
     IF wall.constraints[k].type = "fixedLength"
     THEN [wall.constraints[k] EXCEPT !.fixedLengthCm = val]
     ELSE wall.constraints[k]]

\* updateWall(id, {constraints: cs}).
updateWallConstraints(ws, id, cs) ==
  [i \in DOMAIN ws |->
     IF ws[i].id # id THEN ws[i]
     ELSE Constrained([ws[i] EXCEPT !.constraints = cs], ws)]

SetConstraints(id, cs) ==
  /\ walls' = updateWallConstraints(walls, id, cs)
  /\ recalcPending' = (wallFingerprint(walls') # wallFingerprint(walls))
  /\ UNCHANGED <<openings, rooms, selection>>

\* The wall the panel is shown for: state.walls.find(w => w.id === selectedWallId).
selectedWall == walls[FindWallIdx(walls, selectedWallId)]

\* A click on the switch of a simple constraint of the selected wall.
ToggleSimpleConstraint(type) ==
  /\ ~recalcPending
  /\ selectedWallId \in WallIds(walls)
  /\ SetConstraints(selectedWallId, toggleSimpleConstraint(selectedWall, type, gridSize))

\* A click on the switch of a constraint of the selected wall with respect to
\* one of the walls connected to it.
ToggleRefConstraint(type, refWallId) ==
  /\ ~recalcPending
  /\ selectedWallId \in WallIds(walls)
  /\ refWallId \in findConnectedWalls(selectedWall, walls)
  /\ SetConstraints(selectedWallId, toggleRefConstraint(selectedWall, type, refWallId))

\* The length field of the panel, shown while the selected wall has a
\* fixedLength constraint: parseFloat(value) || 0.01.
UpdateFixedLength(valCm) ==
  /\ ~recalcPending
  /\ selectedWallId \in WallIds(walls)
  /\ hasConstraint(selectedWall.constraints, "fixedLength")
  /\ SetConstraints(selectedWallId, updateFixedLength(selectedWall, valCm))

(***************************************************************************)
(* Opening operations                                                      *)
(***************************************************************************)
defaultWidth(openingType) == IF openingType = "door" THEN DoorWidthCm ELSE WindowWidthCm

WallLenWith(dx, dy, s) ==
  IF s = 0 THEN [s |-> 0, r |-> 1]
  ELSE [s |-> s, r |-> (dx \div s) * (dx \div s) + (dy \div s) * (dy \div s)]

\* distance(wall.start, wall.end) as s * sqrt(r): s is the gcd of the two
\* coordinate differences, so a horizontal or vertical wall has r = 1 and a wall
\* of length 0 has s = 0.
WallLen(wall) ==
  WallLenWith(Abs(wall.end.x - wall.start.x), Abs(wall.end.y - wall.start.y),
              Gcd(Abs(wall.end.x - wall.start.x), Abs(wall.end.y - wall.start.y)))

LenLessWith(a, l, g, r) ==
  IF g = 0 THEN FALSE
  ELSE (a \div g) * (a \div g) * r < (l \div g) * (l \div g)

\* k * len < l for integers k, l >= 0 and a length len = s * sqrt(r).
LenLess(k, len, l) == LenLessWith(k * len.s, l, Gcd(k * len.s, l), len.r)

\* width / wallLenM > 0.9, with wallLenM = distance / gridSize and the width in
\* cm; a wall of length 0 makes the ratio infinite.
TooWide(widthCm, len, gs) ==
  widthCm > 0 /\ LenLess(MaxWidthPercent, len, widthCm * gs)

OverlapsWith(d, widthSum, len, gs) ==
  LenLess(Abs(d[1]) * 200, len, widthSum * gs * d[2])

\* |a - b| < (wa / wallLenM) / 2 + (wb / wallLenM) / 2 for positions a, b and
\* widths in cm on a wall of pixel length len.
Overlaps(a, wa, b, wb, len, gs) == OverlapsWith(RatSub(a, b), wa + wb, len, gs)

\* A drop that does not look at the openings already on the wall.
handleDropIgnoresOthers(os, openingType, gs, wall, clampedPos, len, w) ==
  IF TooWide(w, len, gs) THEN <<>>
  ELSE <<[type |-> openingType, wallId |-> wall.id, width |-> w,
          position |-> clampedPos]>>

\* handleDrop from the width check on, for the wall found.
handleDropOnWall(os, openingType, gs, wall, clampedPos, len, w) ==
  IF TooWide(w, len, gs) THEN <<>>
  ELSE IF \E k \in DOMAIN os :
            /\ os[k].wallId = wall.id
            /\ Overlaps(os[k].position, os[k].width, clampedPos, w, len, gs)
       THEN <<>>
  ELSE <<[type |-> openingType, wallId |-> wall.id, width |-> w,
          position |-> clampedPos]>>

handleDropAt(ws, os, openingType, world, gs, i) ==
  IF i = 0 THEN <<>>
  ELSE handleDropOnWall(os, openingType, gs, ws[i],
                        Clamp(Rat(MinPosPercent, 100), Rat(MaxPosPercent, 100),
                              projectPointOnSegment(world, ws[i].start, ws[i].end)),
                        WallLen(ws[i]), defaultWidth(openingType))

\* What handleDrop passes to onAddOpening for a drop at the world point, or
\* <<>> when it returns without adding.
handleDrop(ws, os, openingType, world, gs) ==
  handleDropAt(ws, os, openingType, world, gs, findWallAtPoint(world, ws, DropThreshold))

\* addOpening(opening): the opening is appended with a generated id.
addOpening(os, opening, nid) ==
  Append(os, [id |-> nid, type |-> opening.type, wallId |-> opening.wallId,
              width |-> opening.width, position |-> opening.position])

DropCommit(d) ==
  /\ IF d = <<>>
     THEN UNCHANGED <<openings, selectedWallId, selectedOpeningId>>
     ELSE /\ openings' = addOpening(openings, d[1], Head(FreshIds))
          /\ selectedOpeningId' = Head(FreshIds)
          /\ selectedWallId' = 0
  /\ UNCHANGED <<walls, rooms, selectedRoomId, recalcPending>>

\* A drop of a palette item on the canvas: handleDrop, then addOpening.
DropOpening(openingType, world) ==
  /\ ~recalcPending
  /\ Len(openings) < MaxOpenings
  /\ DropCommit(handleDrop(walls, openings, openingType, world, gridSize))

\* updateOpening(id, updates): the callback of s.openings.map.
updateOpeningWidth(o, id, widthCm) == IF o.id = id THEN [o EXCEPT !.width = widthCm] ELSE o

updateOpeningPosition(o, id, pos) == IF o.id = id THEN [o EXCEPT !.position = pos] ELSE o

\* A click in select mode on an opening: selectOpening.
SelectOpening(id) ==
  /\ ~recalcPending
  /\ id \in OpeningIds(openings)
  /\ selectedOpeningId' = id
  /\ selectedWallId' = 0
  /\ UNCHANGED <<walls, openings, rooms, selectedRoomId, recalcPending>>

\* The width field of the opening editor, shown for the selected opening:
\* parseFloat(value) || 0.
UpdateOpeningWidth(id, widthCm) ==
  /\ ~recalcPending
  /\ id \in OpeningIds(openings)
  /\ selectedOpeningId = id
  /\ openings' = [k \in DOMAIN openings |-> updateOpeningWidth(openings[k], id, widthCm)]
  /\ UNCHANGED <<walls, rooms, selection, recalcPending>>

\* The position slider of the opening editor: position v / 100, v in 5..95.
UpdateOpeningPosition(id, v) ==
  /\ ~recalcPending
  /\ id \in OpeningIds(openings)
  /\ selectedOpeningId = id
  /\ v \in MinPosPercent..MaxPosPercent
  /\ openings' = [k \in DOMAIN openings |->
                    updateOpeningPosition(openings[k], id, Rat(v, 100))]
  /\ UNCHANGED <<walls, rooms, selection, recalcPending>>

deleteOpening(os, id) == SelectSeq(os, LAMBDA o : o.id # id)

\* The delete button of the opening editor.
DeleteOpening(id) ==
  /\ ~recalcPending
  /\ id \in OpeningIds(openings)
  /\ selectedOpeningId = id
  /\ openings' = deleteOpening(openings, id)
  /\ selectedOpeningId' = 0
  /\ UNCHANGED <<walls, rooms, selectedWallId, selectedRoomId, recalcPending>>

(***************************************************************************)
(* Room operations                                                         *)
(***************************************************************************)
\* updateRoom(id, {name}) and updateRoom(id, {ceilingHeight}).
updateRoomName(rs, id, newName) ==
  [k \in DOMAIN rs |-> IF rs[k].id = id THEN [rs[k] EXCEPT !.name = newName] ELSE rs[k]]

updateRoomCeiling(rs, id, cm) ==
  [k \in DOMAIN rs |-> IF rs[k].id = id THEN [rs[k] EXCEPT !.ceilingHeight = cm] ELSE rs[k]]

\* allRooms.some(r => r.id !== room.id && r.name === newName)
wouldDuplicate(rs, id, newName) ==
  \E k \in DOMAIN rs : rs[k].id # id /\ rs[k].name = newName

\* A click on a room: selectRoom.
SelectRoom(id) ==
  /\ ~recalcPending
  /\ id \in RoomIds(rooms)
  /\ selectedRoomId' = id
  /\ selectedWallId' = 0
  /\ selectedOpeningId' = 0
  /\ UNCHANGED <<walls, openings, rooms, recalcPending>>

\* The name field of RoomEditorPanel, shown for the selected room: the update
\* is dropped when another room already has the name.
RenameRoom(id, newName) ==
  /\ ~recalcPending
  /\ id \in RoomIds(rooms)
  /\ selectedRoomId = id
  /\ rooms' = IF wouldDuplicate(rooms, id, newName) THEN rooms
              ELSE updateRoomName(rooms, id, newName)
  /\ UNCHANGED <<walls, openings, selection, recalcPending>>

\* The ceiling height field: parseFloat(value) || 2.8.
SetCeilingHeight(id, cm) ==
  /\ ~recalcPending
  /\ id \in RoomIds(rooms)
  /\ selectedRoomId = id
  /\ rooms' = updateRoomCeiling(rooms, id, IF cm # 0 THEN cm ELSE DefaultCeilingCm)
  /\ UNCHANGED <<walls, openings, selection, recalcPending>>

deleteRoom(rs, id) == SelectSeq(rs, LAMBDA r : r.id # id)

\* The delete button of the room editor.
DeleteRoom(id) ==
  /\ ~recalcPending
  /\ id \in RoomIds(rooms)
  /\ selectedRoomId = id
  /\ rooms' = deleteRoom(rooms, id)
  /\ selectedRoomId' = 0
  /\ UNCHANGED <<walls, openings, selectedWallId, selectedOpeningId, recalcPending>>

\* A recomputation that leaves the room list as it is.
recalcRoomsKept(ws, rs, ids) == rs

\* recalcRooms: detectRooms(s.walls, s.gridSize, s.rooms).
recalcRooms(ws, rs, ids) == detectRooms(ws, gridSize, rs, ids)

\* The effect of Index on wallFingerprint.
RecalcRooms ==
  /\ recalcPending
  /\ rooms' = recalcRooms(walls, rooms, FreshIds)
  /\ recalcPending' = FALSE
  /\ UNCHANGED <<walls, openings, selection>>

\* loadState(newState) for a file that holds the walls of a plan, with the ids
\* 1..n, and no openings or rooms.
LoadState(planWalls) ==
  /\ ~recalcPending
  /\ walls = <<>> /\ openings = <<>> /\ rooms = <<>>
  /\ walls' = planWalls
  /\ selectedWallId' = 0
  /\ selectedOpeningId' = 0
  /\ selectedRoomId' = 0
  /\ recalcPending' = (wallFingerprint(planWalls) # wallFingerprint(walls))
  /\ UNCHANGED <<openings, rooms>>

(***************************************************************************)
(* The editing session: walls are drawn, dragged and deleted, openings are *)
(* dropped, selected, edited and deleted.                                  *)
(***************************************************************************)
\* The points of the plan drawn: the wall A-B with the points Q1, M, Q3 on it
\* and the point K off it.  All are grid points further than the snap radius
\* from each other, so the snapping leaves them as they are.
PA == Pt(0, 0)

PB == Pt(200, 0)

PM == Pt(100, 0)

PK == Pt(0, 100)

PQ1 == Pt(50, 0)

PQ3 == Pt(150, 0)

\* The walls the user draws, the endpoint drags (from, to), the palette items
\* dropped (type, point) and the values typed into the opening editor.
DrawSegs == {<<PA, PB>>, <<PM, PK>>, <<PQ1, PQ3>>}

\* The second click of the draw tool landing on the first.
ClickTwice == {<<PM, PM>>}

MoveInputs == {<<PB, PM>>}

DropInputs == {<<"door", PQ1>>, <<"window", PM>>}

WidthInputs == {60}

PositionInputs == {50}

Next ==
  \/ \E seg \in DrawSegs \cup ClickTwice : AddWall(seg[1], seg[2])
  \/ \E part \in {"start", "end"}, m \in MoveInputs : MoveEndpoint(part, m[1], m[2])
  \/ \E id \in WallIds(walls) : DeleteWall(id)
  \/ \E d \in DropInputs : DropOpening(d[1], d[2])
  \/ \E id \in OpeningIds(openings) : SelectOpening(id)
  \/ \E id \in OpeningIds(openings), w \in WidthInputs : UpdateOpeningWidth(id, w)
  \/ \E id \in OpeningIds(openings), v \in PositionInputs : UpdateOpeningPosition(id, v)
  \/ \E id \in OpeningIds(openings) : DeleteOpening(id)
  \/ RecalcRooms

Spec == Init /\ [][Next]_vars

(***************************************************************************)
(* The import session: a plan is loaded from a file, its rooms are         *)
(* detected, selected, renamed, resized and deleted, and a corner is       *)
(* dragged.                                                                *)
(***************************************************************************)
\* The walls of a file: the segments segs[perm[1]], segs[perm[2]], ... with
\* the ids 1, 2, ...; the i-th is stored end first where flip[i] holds.
Arrange(segs, perm, flip) ==
  [i \in DOMAIN segs |->
     [id    |-> i,
      start |-> IF flip[i] THEN segs[perm[i]][2] ELSE segs[perm[i]][1],
      end   |-> IF flip[i] THEN segs[perm[i]][1] ELSE segs[perm[i]][2],
      constraints |-> <<>>]]

Perms(n) == {p \in [1..n -> 1..n] : \A i, j \in 1..n : p[i] = p[j] => i = j}

Flips(n) == [1..n -> BOOLEAN]

\* n segments taken from the k-th on, forwards or backwards.
Rotation(n, k, backwards) ==
  [i \in 1..n |-> IF backwards THEN ((k + n - i) % n) + 1 ELSE ((k + i - 1) % n) + 1]

FlipMode(n, mode) == [i \in 1..n |-> mode = "all" \/ (mode = "odd" /\ i % 2 = 1)]

\* The four sides of the rectangle [0, w] x [0, h].
RectSegs(w, h) ==
  << <<Pt(0, 0), Pt(w, 0)>>, <<Pt(w, 0), Pt(w, h)>>,
     <<Pt(w, h), Pt(0, h)>>, <<Pt(0, h), Pt(0, 0)>> >>

RectSizes == {3, 8, 20}

\* One rectangle, its walls in any order and any direction.
RectPlans ==
  {Arrange(RectSegs(w, h), p, f) : w \in RectSizes, h \in RectSizes,
                                   p \in Perms(4), f \in Flips(4)}

\* The sides of the rooms [0, a] x [0, h1] and [a, a + b] x [0, h2], h2 <= h1,
\* which share the wall from (a, 0) to (a, h2); every junction is an endpoint.
TwoRoomSegs(a, b, h1, h2) ==
  << <<Pt(0, 0), Pt(a, 0)>>, <<Pt(a, 0), Pt(a + b, 0)>>,
     <<Pt(a + b, 0), Pt(a + b, h2)>>, <<Pt(a + b, h2), Pt(a, h2)>>,
     <<Pt(a, h2), Pt(a, 0)>>, <<Pt(a, h1), Pt(0, h1)>>, <<Pt(0, h1), Pt(0, 0)>> >>
  \o (IF h2 < h1 THEN << <<Pt(a, h2), Pt(a, h1)>> >> ELSE <<>>)

TwoRoomDims ==
  {<<100, 100, 100, 100>>, <<100, 200, 100, 100>>, <<100, 100, 200, 100>>,
   <<8, 20, 20, 20>>, <<20, 20, 20, 12>>, <<8, 8, 8, 8>>, <<3, 20, 20, 20>>}

FlipModes == {"none", "all", "odd"}

TwoRoomArranged(segs) ==
  {Arrange(segs, Rotation(Len(segs), k, b), FlipMode(Len(segs), m)) :
     k \in 1..Len(segs), b \in BOOLEAN, m \in FlipModes}

TwoRoomPlans == UNION {TwoRoomArranged(TwoRoomSegs(d[1], d[2], d[3], d[4])) : d \in TwoRoomDims}

\* Two closed loops that touch nowhere: the triangles (0,0) (200,0) (0,200)
\* and (300,0) (400,0) (300,100).
LoopSegs ==
  << <<Pt(0, 0), Pt(200, 0)>>, <<Pt(200, 0), Pt(0, 200)>>, <<Pt(0, 200), Pt(0, 0)>>,
     <<Pt(300, 0), Pt(400, 0)>>, <<Pt(400, 0), Pt(300, 100)>>,
     <<Pt(300, 100), Pt(300, 0)>> >>

LoopPlans == {Arrange(LoopSegs, Rotation(6, k, FALSE), FlipMode(6, "none")) : k \in {6, 3}}

\* The segments as walls in their order and direction.
InFileOrder(segs) ==
  Arrange(segs, Rotation(Len(segs), Len(segs), FALSE), FlipMode(Len(segs), "none"))

\* A room of 2 m x 1 m with one more wall that starts at a corner and ends
\* free, outside or inside the room.
SpurEnds == {<<Pt(200, 100), Pt(300, 100)>>, <<Pt(0, 0), Pt(100, 50)>>}

SpurPlans == {InFileOrder(RectSegs(200, 100) \o <<s>>) : s \in SpurEnds}

\* Walls that close no loop: a chain of five walls and a tree of six.
ChainSegs ==
  << <<Pt(0, 0), Pt(100, 0)>>, <<Pt(100, 0), Pt(100, 100)>>,
     <<Pt(100, 100), Pt(200, 100)>>, <<Pt(200, 100), Pt(200, 0)>>,
     <<Pt(200, 0), Pt(300, 0)>> >>

TreeSegs ==
  << <<Pt(0, 0), Pt(100, 0)>>, <<Pt(100, 0), Pt(200, 0)>>,
     <<Pt(100, 0), Pt(100, 100)>>, <<Pt(100, 100), Pt(100, 200)>>,
     <<Pt(100, 100), Pt(200, 100)>>, <<Pt(100, 0), Pt(100, 0 - 100)>> >>

OpenPlans ==
  {Arrange(segs, Rotation(Len(segs), Len(segs), b), FlipMode(Len(segs), m)) :
     segs \in {ChainSegs, TreeSegs}, b \in BOOLEAN, m \in FlipModes}

ImportPlans == RectPlans \cup TwoRoomPlans \cup LoopPlans \cup SpurPlans \cup OpenPlans

\* The corner drag (from, to) and the values typed into the room editor.
CornerDrags == {<<Pt(200, 0), Pt(220, 0)>>}

NameInputs == {"", "Helyiseg 2"}

CeilingInputs == {0, 250}

NextImport ==
  \/ \E plan \in ImportPlans : LoadState(plan)
  \/ \E part \in {"start", "end"}, m \in CornerDrags : MoveEndpoint(part, m[1], m[2])
  \/ \E id \in RoomIds(rooms) : SelectRoom(id)
  \/ \E id \in RoomIds(rooms), n \in NameInputs : RenameRoom(id, n)
  \/ \E id \in RoomIds(rooms), h \in CeilingInputs : SetCeilingHeight(id, h)
  \/ \E id \in RoomIds(rooms) : DeleteRoom(id)
  \/ RecalcRooms

SpecImport == Init /\ [][NextImport]_vars

(***************************************************************************)
(* The constraint session: a file with two walls that meet in a corner is  *)
(* opened, the second wall carrying a constraint list of the file; the     *)
(* walls are selected, their free ends dragged and their constraints       *)
(* edited in the wall panel.                                               *)
(***************************************************************************)
\* The horizontal wall 1 and the wall 2 that starts at its end.
CornerWalls(cs) ==
  <<[id |-> 1, start |-> Pt(0, 0), end |-> Pt(200, 0), constraints |-> <<>>],
    [id |-> 2, start |-> Pt(200, 0), end |-> Pt(200, 100), constraints |-> cs]>>

\* The constraint lists of the files.  importJSON checks only that walls and
\* openings are arrays, so a file may hold any list, also one that the
\* panel cannot produce.
FileConstraints ==
  {<<>>,
   <<Constraint("perpendicular", 1, NoLength)>>,
   <<Constraint("fixedLength", 0, 50), Constraint("horizontal", 0, NoLength)>>,
   <<Constraint("vertical", 0, NoLength), Constraint("horizontal", 0, NoLength)>>,
   <<Constraint("fixedLength", 0, 50), Constraint("fixedLength", 0, 100)>>}

SolverPlans == {CornerWalls(cs) : cs \in FileConstraints}

\* Drags of a free end: <<wall id, endpoint, grid point the pointer moves to>>.
SolverDrags ==
  {<<2, "end", Pt(230, 40)>>, <<2, "end", Pt(200, 50)>>, <<2, "end", Pt(250, 0)>>}

SimpleTypes == {"horizontal", "vertical", "fixedLength"}

RefTypes == {"perpendicular", "parallel"}

LengthInputs == {50}

\* The drag d of the wall's endpoint, where a pointer that goes down on the
\* endpoint finds that wall.
DragFrom(d, from) ==
  /\ findWallAtPoint(from, walls, SelectThreshold) = FindWallIdx(walls, d[1])
  /\ MoveEndpoint(d[2], from, d[3])

DragOf(d) ==
  /\ d[1] \in WallIds(walls)
  /\ DragFrom(d, walls[FindWallIdx(walls, d[1])][d[2]])

\* The longest wall, in half metres, that the session fixes the length of.
MaxHalfMetres == 4

\* The wall is a whole number of half metres long.
HalfMetresLong(w) ==
  \E k \in 1..MaxHalfMetres :
    4 * distanceSq(w.start, w.end) = k * k * gridSize * gridSize

\* The session switches fixedLength on only for such a wall, which keeps the
\* coordinates of the later corrections whole numbers.
SwitchedHere(type) ==
  IF type = "fixedLength" /\ selectedWallId \in WallIds(walls)
  THEN hasConstraint(selectedWall.constraints, type) \/ HalfMetresLong(selectedWall)
  ELSE TRUE

NextSolver ==
  \/ \E plan \in SolverPlans : LoadState(plan)
  \/ \E d \in SolverDrags : DragOf(d)
  \/ \E type \in SimpleTypes : SwitchedHere(type) /\ ToggleSimpleConstraint(type)
  \/ \E type \in RefTypes : \E ref \in WallIds(walls) : ToggleRefConstraint(type, ref)
  \/ \E valCm \in LengthInputs : UpdateFixedLength(valCm)
  \/ RecalcRooms

SpecSolver == Init /\ [][NextSolver]_vars

(***************************************************************************)
(* The clearing session: a file with one or two rooms is opened, doors and *)
(* windows are dropped on its walls, and walls are selected and deleted.   *)
(***************************************************************************)
ClearingPlans ==
  {InFileOrder(RectSegs(200, 100)), InFileOrder(TwoRoomSegs(100, 100, 100, 100))}

\* The drops of the editing session, and a door on the wall at x = 200.
ClearingDrops == DropInputs \cup {<<"door", Pt(200, 50)>>}

NextClearing ==
  \/ \E plan \in ClearingPlans : LoadState(plan)
  \/ \E i \in DOMAIN walls : SelectWall(walls[i].start)
  \/ \E d \in ClearingDrops : DropOpening(d[1], d[2])
  \/ \E id \in WallIds(walls) : DeleteWall(id)
  \/ RecalcRooms

SpecClearing == Init /\ [][NextClearing]_vars

(***************************************************************************)
(* Properties of room detection, checked on the import session             *)
(***************************************************************************)
SetMin(S) == CHOOSE x \in S : \A y \in S : x <= y

SetMax(S) == CHOOSE x \in S : \A y \in S : y <= x

SetMid(S) == CHOOSE x \in S : x # SetMin(S) /\ x # SetMax(S)

Xs(ws) == {ws[i].start.x : i \in DOMAIN ws} \cup {ws[i].end.x : i \in DOMAIN ws}

Ys(ws) == {ws[i].start.y : i \in DOMAIN ws} \cup {ws[i].end.y : i \in DOMAIN ws}

\* The walls as undirected segments, and the segments of a list of point pairs.
Sides(ws) == {{ws[i].start, ws[i].end} : i \in DOMAIN ws}

SidesOf(segs) == {{segs[i][1], segs[i][2]} : i \in DOMAIN segs}

\* The walls are the four sides of the rectangle [0, w] x [0, h], one wall
\* per side, in some order and direction.
IsRectangle(ws) ==
  /\ Len(ws) = 4
  /\ SetMin(Xs(ws)) = 0 /\ SetMin(Ys(ws)) = 0
  /\ SetMax(Xs(ws)) > 0 /\ SetMax(Ys(ws)) > 0
  /\ Sides(ws) = SidesOf(RectSegs(SetMax(Xs(ws)), SetMax(Ys(ws))))

\* No two distinct wall endpoints are within EPSILON of each other on both
\* axes, so buildGraph merges no two corners.
NoCornersMerge(ws) ==
  \A i, j \in DOMAIN ws :
    \A p \in {ws[i].start, ws[i].end}, q \in {ws[j].start, ws[j].end} :
      p # q => ~pointsEqual(p, q)

\* A rectangle of w by h pixels measures at least 0.01 square meters.
RoomSized(w, h) == 100 * w * h >= gridSize * gridSize

\* What recalcRooms would compute in the current state.
Detected == detectRooms(walls, gridSize, rooms, FreshIds)

\* The number of faces traced, and the doubled areas of the faces left after
\* the largest has been dropped.
FacesTraced == Len(TracedCycles(buildGraph(walls)))

AreasOf(g, c) == [i \in DOMAIN c |-> CycleArea2(g, c[i])]

InteriorAreasIn(g) == AreasOf(g, InteriorCycles(g, TracedCycles(g)))

InteriorAreas2 == InteriorAreasIn(buildGraph(walls))

OneRoomIn(det, w, h) ==
  /\ Len(det) = 1
  /\ Len(det[1].wallIds) = 4
  /\ Range(det[1].wallIds) = WallIds(walls)
  /\ InteriorAreas2 = <<2 * w * h>>
  /\ FacesTraced = 2

OneRoomOfArea(w, h) == OneRoomIn(Detected, w, h)

\* C1 (amended): four walls that form one closed rectangle of w by h pixels,
\* in any order and direction, with w and h at least EPSILON and an area of at
\* least 0.01 square meters, give exactly one room, made of the four walls,
\* with polygon area w * h; of the two faces traced one is dropped as outer.
C1_RectangleGivesOneRoom ==
  (/\ IsRectangle(walls)
   /\ NoCornersMerge(walls)
   /\ RoomSized(SetMax(Xs(walls)), SetMax(Ys(walls))))
  => OneRoomOfArea(SetMax(Xs(walls)), SetMax(Ys(walls)))

\* C1 as stated: every closed rectangle, whatever its size, gives one room.
C1_EveryRectangleGivesOneRoom ==
  IsRectangle(walls) => OneRoomOfArea(SetMax(Xs(walls)), SetMax(Ys(walls)))

\* The rooms of a loaded rectangle of room size have been detected.
C1_Witness ==
  /\ IsRectangle(walls) /\ NoCornersMerge(walls)
  /\ RoomSized(SetMax(Xs(walls)), SetMax(Ys(walls)))
  /\ ~recalcPending
  /\ Len(rooms) = 1
  /\ walls[1].start # Pt(0, 0)

\* The heights of the left and of the right room of a two-room plan.
LeftHeight(ws) == SetMax(Ys(ws))

RightHeight(ws) == IF Cardinality(Ys(ws)) = 3 THEN SetMid(Ys(ws)) ELSE SetMax(Ys(ws))

\* The walls are the sides of two rectangular rooms [0, a] x [0, h1] and
\* [a, a + b] x [0, h2] that share a wall, one wall per side between junctions.
IsTwoRooms(ws) ==
  /\ Cardinality(Xs(ws)) = 3 /\ Cardinality(Ys(ws)) \in {2, 3}
  /\ SetMin(Xs(ws)) = 0 /\ SetMin(Ys(ws)) = 0
  /\ Len(ws) = Cardinality(Sides(ws))
  /\ Sides(ws) = SidesOf(TwoRoomSegs(SetMid(Xs(ws)), SetMax(Xs(ws)) - SetMid(Xs(ws)),
                                     LeftHeight(ws), RightHeight(ws)))

\* The wall lies on the boundary of the rectangle [x0, x1] x [0, y1].
OnRect(w, x0, x1, y1) ==
  \/ /\ w.start.x = w.end.x /\ w.start.x \in {x0, x1}
     /\ w.start.y <= y1 /\ w.end.y <= y1
  \/ /\ w.start.y = w.end.y /\ w.start.y \in {0, y1}
     /\ w.start.x \in x0..x1 /\ w.end.x \in x0..x1

BoundaryIds(ws, x0, x1, y1) == {ws[i].id : i \in {k \in DOMAIN ws : OnRect(ws[k], x0, x1, y1)}}

LeftIds(ws) == BoundaryIds(ws, 0, SetMid(Xs(ws)), LeftHeight(ws))

RightIds(ws) == BoundaryIds(ws, SetMid(Xs(ws)), SetMax(Xs(ws)), RightHeight(ws))

LeftArea(ws) == SetMid(Xs(ws)) * LeftHeight(ws)

RightArea(ws) == (SetMax(Xs(ws)) - SetMid(Xs(ws))) * RightHeight(ws)

TwoRoomsIn(det, areas) ==
  /\ Len(det) = 2
  /\ FacesTraced = 3
  /\ Len(areas) = 2
  /\ \A i \in 1..2 : Len(det[i].wallIds) = Cardinality(Range(det[i].wallIds))
  /\ \E i, j \in 1..2 :
       /\ i # j
       /\ Range(det[i].wallIds) = LeftIds(walls)
       /\ areas[i] = 2 * LeftArea(walls)
       /\ Range(det[j].wallIds) = RightIds(walls)
       /\ areas[j] = 2 * RightArea(walls)

TwoRoomsDetected == TwoRoomsIn(Detected, InteriorAreas2)

\* C2 (amended): walls that form two adjacent rectangular rooms sharing one
\* wall, every junction a shared endpoint, no two distinct corners within
\* EPSILON on both axes and each room of at least 0.01 square meters, give
\* exactly two rooms, each with the wall ids and the area of its rectangle;
\* three faces are traced and one, the outer boundary, is dropped.
C2_TwoAdjacentRooms ==
  (/\ IsTwoRooms(walls)
   /\ NoCornersMerge(walls)
   /\ RoomSized(SetMid(Xs(walls)), LeftHeight(walls))
   /\ RoomSized(SetMax(Xs(walls)) - SetMid(Xs(walls)), RightHeight(walls)))
  => TwoRoomsDetected

\* C2 as stated: every such arrangement, whatever its size, gives two rooms.
C2_EveryTwoAdjacentRooms == IsTwoRooms(walls) => TwoRoomsDetected

\* The rooms of a loaded plan of two rooms of different heights have been
\* detected.
C2_Witness ==
  /\ IsTwoRooms(walls) /\ NoCornersMerge(walls)
  /\ Cardinality(Ys(walls)) = 3
  /\ ~recalcPending
  /\ Len(rooms) = 2

\* The id, the name and the wall-id set of each room of a list.
RoomKeys(rs) == [i \in DOMAIN rs |-> <<rs[i].id, rs[i].name, Range(rs[i].wallIds)>>]

DetectedAgain(det) ==
  detectRooms(walls, gridSize, det, FreshFrom(UsedIds \cup RoomIds(det), 1, MaxFresh))

IdempotentOn(det) == RoomKeys(DetectedAgain(det)) = RoomKeys(det)

\* C3: room detection is idempotent: detecting again on the same walls, with
\* the rooms just detected as the previous rooms, gives rooms with the same
\* ids, names and wall-id sets.
C3_DetectionIdempotent == IdempotentOn(Detected)

\* C4: no two rooms of the room list have the same name.
C4_RoomNamesUnique ==
  \A i, j \in DOMAIN rooms : i # j => rooms[i].name # rooms[j].name

RoomsDistinct(rs) ==
  \A i, j \in DOMAIN rs :
    i # j => /\ rs[i].id # rs[j].id
             /\ Range(rs[i].wallIds) # Range(rs[j].wallIds)

\* C5: no two rooms of the room list have the same id, and no two have the
\* same set of wall ids.
C5_RoomIdsUnique == RoomsDistinct(rooms)

IdentityKeptIn(det) ==
  \A i \in DOMAIN det, k \in DOMAIN rooms :
    Range(det[i].wallIds) = Range(rooms[k].wallIds) =>
      /\ det[i].id = rooms[k].id
      /\ det[i].name = rooms[k].name
      /\ det[i].ceilingHeight = rooms[k].ceilingHeight

\* C6: a room detected on the current walls whose set of wall ids is that of
\* a room of the previous list (a list of distinct rooms) carries that room's
\* id, name and ceiling height.
C6_IdentityPreserved == RoomsDistinct(rooms) => IdentityKeptIn(Detected)

(***************************************************************************)
(* Properties of walls and openings, checked on the editing session        *)
(***************************************************************************)
\* The endpoint lies on the interior of the wall, in the splitter's sense.
Touches(p, w) == pointOnWallInterior(p, w, SPLIT_THRESHOLD).hit

\* The point of the wall's line nearest to p: the start moved along the wall
\* by the fraction dot / lenSq of it.
FootAt(w, dx, dy, dot, lenSq) ==
  Pt(w.start.x + (dot * dx) \div lenSq, w.start.y + (dot * dy) \div lenSq)

FootAlong(p, w, dx, dy) ==
  FootAt(w, dx, dy, (p.x - w.start.x) * dx + (p.y - w.start.y) * dy, dx * dx + dy * dy)

Foot(p, w) == FootAlong(p, w, w.end.x - w.start.x, w.end.y - w.start.y)

Geo(ws) == [i \in DOMAIN ws |-> [start |-> ws[i].start, end |-> ws[i].end]]

FirstTouched(p, ws) == MinOf({i \in DOMAIN ws : Touches(p, ws[i])})

CutAt(geo, i, foot) ==
  IF i = 0 THEN geo
  ELSE SubSeq(geo, 1, i - 1)
       \o << [start |-> geo[i].start, end |-> foot], [start |-> foot, end |-> geo[i].end] >>
       \o SubSeq(geo, i + 1, Len(geo))

CutAtIdx(geo, p, i) == CutAt(geo, i, IF i = 0 THEN p ELSE Foot(p, geo[i]))

\* The segments after the first one the point touches, if any, has been cut
\* in two at the point's projection.
CutFirstTouched(geo, p) == CutAtIdx(geo, p, FirstTouched(p, geo))

\* The walls addWall would leave in the current state.
Added(seg) == addWall(walls, openings, seg[1], seg[2], FreshIds).walls

AddedSplitsFirstTouched(seg, added) ==
  /\ Geo(added)
     = Append(CutFirstTouched(CutFirstTouched(Geo(walls), seg[1]), seg[2]),
              [start |-> seg[1], end |-> seg[2]])
  /\ Cardinality(WallIds(added)) = Len(added)
  /\ \A i \in DOMAIN walls :
       \/ walls[i] \in Range(added)
       \/ /\ walls[i].id \notin WallIds(added)
          /\ Touches(seg[1], walls[i]) \/ Touches(seg[2], walls[i])
  /\ \A j \in DOMAIN added :
       added[j] \in Range(walls) \/ added[j].id \notin WallIds(walls)

ReplacedByTwo(w, p, added, geo) ==
  /\ w.id \notin WallIds(added)
  /\ \E j \in 1..(Len(added) - 1) :
       /\ geo[j] = [start |-> w.start, end |-> Foot(p, w)]
       /\ geo[j + 1] = [start |-> Foot(p, w), end |-> w.end]
       /\ {added[j].id, added[j + 1].id} \cap WallIds(walls) = {}

AddedSplitsEveryTouched(seg, added) ==
  /\ added[Len(added)].start = seg[1]
  /\ added[Len(added)].end = seg[2]
  /\ \A i \in DOMAIN walls :
       IF Touches(seg[1], walls[i]) \/ Touches(seg[2], walls[i])
       THEN \A p \in {q \in {seg[1], seg[2]} : Touches(q, walls[i])} :
              ReplacedByTwo(walls[i], p, added, Geo(added))
       ELSE walls[i] \in Range(added)

WallById(ws, id) == ws[MinOf({i \in DOMAIN ws : ws[i].id = id})]

\* The point of the plan an opening sits at, as a pair of rationals.
AbsPoint(o, ws) ==
  LET w == WallById(ws, o.wallId)
  IN  << Rat(w.start.x * o.position[2] + o.position[1] * (w.end.x - w.start.x),
             o.position[2]),
         Rat(w.start.y * o.position[2] + o.position[1] * (w.end.y - w.start.y),
             o.position[2]) >>

InUnitInterval(r) == RatLeq(<<0, 1>>, r) /\ RatLeq(r, <<1, 1>>)

\* The openings after the split of wall i of st at the endpoint e are those
\* before, re-parented as C8 says.
Reparented(st, e, i, t, after) ==
  /\ Len(after.openings) = Len(st.openings)
  /\ \A k \in DOMAIN st.openings :
       IF st.openings[k].wallId # st.walls[i].id
       THEN after.openings[k] = st.openings[k]
       ELSE /\ after.openings[k].id = st.openings[k].id
            /\ after.openings[k].type = st.openings[k].type
            /\ after.openings[k].width = st.openings[k].width
            /\ IF RatLess(st.openings[k].position, t)
               THEN /\ after.openings[k].wallId = after.walls[i].id
                    /\ after.openings[k].position = RatDiv(st.openings[k].position, t)
               ELSE /\ after.openings[k].wallId = after.walls[i + 1].id
                    /\ after.openings[k].position
                       = RatDiv(RatSub(st.openings[k].position, t), RatSub(<<1, 1>>, t))
            /\ InUnitInterval(after.openings[k].position)
            /\ AbsPoint(after.openings[k], after.walls) = AbsPoint(st.openings[k], st.walls)

SplitReparentsAt(st, e, i) ==
  i # 0 =>
    Reparented(st, e, i, pointOnWallInterior(e, st.walls[i], SPLIT_THRESHOLD).t,
               SplitAtEndpoint(st, e))

SplitReparents(st, e) == SplitReparentsAt(st, e, FirstTouched(e, st.walls))

BeforeSplit == [walls |-> walls, openings |-> openings, ids |-> Tail(FreshIds)]

BothSplitsReparent(seg, st) ==
  /\ SplitReparents(st, seg[1])
  /\ SplitReparents(SplitAtEndpoint(st, seg[1]), seg[2])

\* C8: when a wall is split at t, an opening on it at position p < t moves to
\* the first sub-wall with position p / t, one at p >= t to the second with
\* position (p - t) / (1 - t); the new position is in [0, 1] and is the same
\* point of the plan; openings on other walls are unchanged.  This holds of
\* the split at the start of a new wall and of the split at its end.
C8_SplitReparentsOpenings ==
  \A seg \in DrawSegs : BothSplitsReparent(seg, BeforeSplit)

\* An opening sits at position 0: it was at the split point of its wall and
\* moved to the start of the second sub-wall.
C8_Witness ==
  \E k \in DOMAIN openings :
    /\ openings[k].position = <<0, 1>>
    /\ WallById(walls, openings[k].wallId).start \in {PM, PQ1, PQ3}

\* C9: every opening's wallId is the id of a wall of the wall list.
C9_OpeningsReferToWalls ==
  \A k \in DOMAIN openings : openings[k].wallId \in WallIds(walls)

\* An opening sits on the middle one of the three walls that A-B was cut into
\* when both endpoints of a new wall split it.
C9_Witness ==
  \E k \in DOMAIN openings, i \in 2..(Len(walls) - 1) :
    /\ walls[i].id = openings[k].wallId
    /\ walls[i].start = PQ1 /\ walls[i].end = PQ3
    /\ walls[i - 1].end = PQ1 /\ walls[i + 1].start = PQ3

\* position - w / 2 >= 0 and position + w / 2 <= 1 with w = width / wallLenM.
FootprintInside(o, len) ==
  /\ ~LenLess(200 * o.position[1], len, o.width * gridSize * o.position[2])
  /\ ~LenLess(200 * (o.position[2] - o.position[1]), len,
              o.width * gridSize * o.position[2])

\* C10: each opening's footprint lies within [0, 1] of its wall and no two
\* openings of one wall have overlapping footprints.
C10_FootprintsFit ==
  /\ \A k \in DOMAIN openings :
       openings[k].wallId \in WallIds(walls) =>
         FootprintInside(openings[k], WallLen(WallById(walls, openings[k].wallId)))
  /\ \A k, l \in DOMAIN openings :
       (k # l /\ openings[k].wallId = openings[l].wallId
        /\ openings[k].wallId \in WallIds(walls)) =>
         ~Overlaps(openings[k].position, openings[k].width,
                   openings[l].position, openings[l].width,
                   WallLen(WallById(walls, openings[k].wallId)), gridSize)

(***************************************************************************)
(* Properties of refused commands and of deleteWall                        *)
(***************************************************************************)
\* The footprints of two openings at positions a and b, wa and wb cm wide, on
\* a wall of pixel length len have a point in common:
\* |a - b| < (wa + wb) / (2 * wallLenM).
FootprintsOverlap(a, wa, b, wb, len) ==
  LenLess(200 * Abs(a[1] * b[2] - b[1] * a[2]), len, (wa + wb) * gridSize * a[2] * b[2])

\* A width of w cm is more than 90 % of a wall of pixel length len.
WiderThanAllowed(w, len) == LenLess(90, len, w * gridSize)

DropWidth(openingType) == IF openingType = "door" THEN 90 ELSE 120

\* The drop of a w cm wide opening at position pos of the wall must be refused.
MustRefuseOn(wall, pos, len, w) ==
  \/ WiderThanAllowed(w, len)
  \/ \E k \in DOMAIN openings :
       /\ openings[k].wallId = wall.id
       /\ FootprintsOverlap(openings[k].position, openings[k].width, pos, w, len)

MustRefuseAt(d, i) ==
  /\ i # 0
  /\ MustRefuseOn(walls[i],
                  RatMax(<<1, 20>>, RatMin(<<19, 20>>,
                         projectPointOnSegment(d[2], walls[i].start, walls[i].end))),
                  WallLen(walls[i]), DropWidth(d[1]))

\* The drop d = <<type, point>> lands on a wall and is too wide for it or
\* overlaps an opening of it.
MustRefuse(d) == MustRefuseAt(d, findWallAtPoint(d[2], walls, DropThreshold))

\* C11: a drop on a wall of an opening that is wider than 90 % of the wall or
\* whose footprint overlaps an opening already on the wall changes nothing:
\* walls, openings, rooms and selection are as before.
C11_RefusedDropChangesNothing ==
  [][\A d \in DropInputs :
       (MustRefuse(d) /\ DropOpening(d[1], d[2])) => UNCHANGED vars]_vars

\* The window of the palette, dropped at M, would overlap the door already
\* on the wall, which is long enough for it.
C11_Witness ==
  /\ ~recalcPending
  /\ Len(openings) = 1
  /\ openings[1].type = "door"
  /\ findWallAtPoint(PM, walls, DropThreshold) # 0
  /\ walls[findWallAtPoint(PM, walls, DropThreshold)].id = openings[1].wallId
  /\ MustRefuse(<<"window", PM>>)
  /\ ~WiderThanAllowed(120, WallLen(walls[findWallAtPoint(PM, walls, DropThreshold)]))

\* The walls of a list that were not in the list before, by id.
NewWalls(before, after) == {after[i] : i \in {k \in DOMAIN after : after[k].id \notin WallIds(before)}}

\* C12: creating a wall whose start equals its end is refused: the draw step
\* adds no wall and leaves walls, openings and rooms unchanged; and no wall
\* that a draw step creates, the drawn wall or a part of a split wall, has
\* its start equal to its end.
C12_ZeroLengthWallRefused ==
  [][\A seg \in DrawSegs \cup ClickTwice :
       AddWall(seg[1], seg[2]) =>
         /\ seg[1] = seg[2] => UNCHANGED <<walls, openings, rooms>>
         /\ \A w \in NewWalls(walls, walls') : w.start # w.end]_vars

\* The draw tool can be clicked twice at M while M lies on the interior of a
\* wall that carries an opening: addWall would have split that wall.
C12_Witness ==
  /\ ~recalcPending
  /\ \E i \in DOMAIN walls, k \in DOMAIN openings :
       /\ Touches(PM, walls[i])
       /\ openings[k].wallId = walls[i].id
       /\ Len(addWall(walls, openings, PM, PM, FreshIds).walls) <= MaxWalls

(***************************************************************************)
(* Properties of the constraint solver                                     *)
(***************************************************************************)
Horizontal(w) == w.start.y = w.end.y /\ w.start.x # w.end.x

\* The only constraint of the wall is perpendicular to a horizontal wall.
OnlyPerpendicularToHorizontal(w, ws) ==
  /\ Len(w.constraints) = 1
  /\ w.constraints[1].type = "perpendicular"
  /\ FindWallIdx(ws, w.constraints[1].refWallId) # 0
  /\ Horizontal(ws[FindWallIdx(ws, w.constraints[1].refWallId)])

VerticalOfLength(w, lenSq) ==
  /\ w.end.x = w.start.x
  /\ distanceSq(w.start, w.end) = lenSq

\* The wall i after the drag of its end to p: vertical, and as long as the
\* dragged position is far from its start.
DraggedKeepsLength(i, p) ==
  VerticalOfLength(walls'[i], distanceSq(walls[i].start, p))

DragIsCorrected(d, i) ==
  (OnlyPerpendicularToHorizontal(walls[i], walls) /\ d[2] = "end" /\ DragOf(d))
    => DraggedKeepsLength(i, d[3])

\* C13: when the end of a wall whose only constraint is perpendicular to a
\* purely horizontal wall is dragged to any position, the corrected wall is
\* exactly vertical (end.x = start.x) and its length is the distance between
\* its start and the dragged position.
C13_PerpendicularKeepsLength ==
  [][\A d \in SolverDrags :
       d[1] \in WallIds(walls) => DragIsCorrected(d, FindWallIdx(walls, d[1]))]_vars

Permuted(cs, perm) == [k \in DOMAIN cs |-> cs[perm[k]]]

\* The end that applyConstraints returns for the wall with the constraint
\* list cs and its end dragged to p.
CorrectedEnd(w, ws, cs, p) ==
  applyConstraints([w EXCEPT !.end = p, !.constraints = cs], ws, gridSize, "end")

OrderIrrelevantAt(w, ws, p) ==
  \A perm \in Perms(Len(w.constraints)) :
    CorrectedEnd(w, ws, Permuted(w.constraints, perm), p)
      = CorrectedEnd(w, ws, w.constraints, p)

\* The positions of the end of the wall: where it is, and where the drags
\* of the session take it.
DragTargets(w) == {w.end} \cup {d[3] : d \in {e \in SolverDrags : e[1] = w.id}}

OrderIrrelevant(w, ws) == \A p \in DragTargets(w) : OrderIrrelevantAt(w, ws, p)

OneOfEachType(cs) == \A j, k \in DOMAIN cs : cs[j].type = cs[k].type => j = k

\* C14: for a wall with at most one constraint of each type, the point
\* applyConstraints returns is the same for every permutation of the wall's
\* constraint list: the constraints are applied in the order perpendicular,
\* parallel, horizontal/vertical, fixedLength, and horizontal and vertical,
\* which share a priority, commute.
C14_ListOrderIrrelevant ==
  \A i \in DOMAIN walls :
    OneOfEachType(walls[i].constraints) => OrderIrrelevant(walls[i], walls)

\* C14 as stated: for every wall and every permutation of its constraint
\* list the returned point is the same.
C14_AnyListOrderIrrelevant ==
  \A i \in DOMAIN walls : OrderIrrelevant(walls[i], walls)

\* A wall whose list names fixedLength before horizontal has been dragged
\* and lies horizontal with its fixed length.
C14_Witness ==
  \E i \in DOMAIN walls :
    /\ Len(walls[i].constraints) = 2
    /\ walls[i].constraints[1].type = "fixedLength"
    /\ walls[i].constraints[2].type = "horizontal"
    /\ walls[i].end = Pt(walls[i].start.x + 50, walls[i].start.y)

WithoutFixedLength(cs) == SelectSeq(cs, LAMBDA c : c.type # "fixedLength")

\* The list has one fixedLength constraint, and that one has a length.
OneFixedLength(cs) ==
  /\ Len(SelectSeq(cs, LAMBDA c : c.type = "fixedLength")) = 1
  /\ \A k \in DOMAIN cs : cs[k].type = "fixedLength" => cs[k].fixedLengthCm # NoLength

\* r is len pixels from the anchor, in the direction from the anchor to v;
\* to the right of the anchor where v is the anchor.
AtLengthAlong(anchor, v, r, len) ==
  /\ distanceSq(anchor, r) = len * len
  /\ IF v = anchor
     THEN r = Pt(anchor.x + len, anchor.y)
     ELSE /\ (v.x - anchor.x) * (r.y - anchor.y) = (v.y - anchor.y) * (r.x - anchor.x)
          /\ (v.x - anchor.x) * (r.x - anchor.x) + (v.y - anchor.y) * (r.y - anchor.y) >= 0

\* With the end at p: the point applyConstraints returns is where the
\* constraint c puts the point that the other constraints give.
FixedLengthAppliedAt(w, ws, p, c) ==
  AtLengthAlong(w.start,
                CorrectedEnd(w, ws, WithoutFixedLength(w.constraints), p),
                CorrectedEnd(w, ws, w.constraints, p),
                ExactDiv(c.fixedLengthCm * gridSize, 100))

FixedLengthApplied(w, ws, c) ==
  \A p \in DragTargets(w) : FixedLengthAppliedAt(w, ws, p, c)

EveryFixedLengthApplied(w, ws) ==
  \A k \in DOMAIN w.constraints :
    (w.constraints[k].type = "fixedLength" /\ w.constraints[k].fixedLengthCm # NoLength)
      => FixedLengthApplied(w, ws, w.constraints[k])

\* The wall is as long as the constraint c says.
HasLengthOf(w, c) ==
  100 * 100 * distanceSq(w.start, w.end)
    = c.fixedLengthCm * gridSize * c.fixedLengthCm * gridSize

HasEveryFixedLength(w) ==
  \A k \in DOMAIN w.constraints :
    (w.constraints[k].type = "fixedLength" /\ w.constraints[k].fixedLengthCm # NoLength)
      => HasLengthOf(w, w.constraints[k])

\* The walls that a step has changed: in this session an updateWall.
UpdatedWalls == {i \in DOMAIN walls : i \in DOMAIN walls' /\ walls'[i] # walls[i]}

\* C15: for a wall whose list has one fixedLength constraint, of length m,
\* the point applyConstraints returns is m * gridSize from the anchor, in the
\* direction of the point that the wall's other constraints give (to the
\* right of the anchor where they give the anchor itself); and a wall that
\* updateWall has changed is m metres long, whatever its other constraints.
C15_FixedLengthApplied ==
  /\ [](\A i \in DOMAIN walls :
          OneFixedLength(walls[i].constraints) => EveryFixedLengthApplied(walls[i], walls))
  /\ [][\A i \in UpdatedWalls :
          OneFixedLength(walls'[i].constraints) => HasEveryFixedLength(walls'[i])]_vars

\* C15 as stated: the same for every fixedLength constraint of every wall.
C15_AnyFixedLengthApplied ==
  /\ [](\A i \in DOMAIN walls : EveryFixedLengthApplied(walls[i], walls))
  /\ [][\A i \in UpdatedWalls : HasEveryFixedLength(walls'[i])]_vars

\* A wall with a perpendicular and a fixedLength constraint stands half a
\* metre long on its reference wall.
C15_Witness ==
  \E i \in DOMAIN walls :
    /\ Len(walls[i].constraints) = 2
    /\ walls[i].constraints[1].type = "perpendicular"
    /\ walls[i].constraints[2] = Constraint("fixedLength", 0, 50)
    /\ walls[i].end = Pt(walls[i].start.x, walls[i].start.y + 50)

\* A constraint list that the wall panel can produce: at most one constraint
\* of a type, not horizontal with vertical, a fixed length of a centimetre
\* or more.
EditorList(cs) ==
  /\ OneOfEachType(cs)
  /\ ~(hasConstraint(cs, "horizontal") /\ hasConstraint(cs, "vertical"))
  /\ \A k \in DOMAIN cs : cs[k].type = "fixedLength" => cs[k].fixedLengthCm >= 1

\* The wall i as updateWall hands it to the solver in this step has
\* start # end: its end is the drag's target in a drag of the wall, and the
\* wall's own end in a step of the wall panel.
DistinctBeforeCorrection(i) ==
  IF \E d \in SolverDrags : d[1] = walls[i].id /\ DragOf(d)
  THEN \A d \in SolverDrags : (d[1] = walls[i].id /\ DragOf(d)) => d[3] # walls[i].start
  ELSE walls[i].start # walls[i].end

\* C16: a wall that had start # end before the correction and carries a
\* constraint list the wall panel can produce has start # end after
\* updateWall.
C16_NeverCollapses ==
  [][\A i \in UpdatedWalls :
       (EditorList(walls'[i].constraints) /\ DistinctBeforeCorrection(i))
         => walls'[i].start # walls'[i].end]_vars

(***************************************************************************)
(* Properties of deleteWall                                                *)
(***************************************************************************)
\* after is before without the items at the indices in gone: the others are
\* there, unchanged and in their order, and nothing else is.
ExactlyRemoves(after, before, gone) ==
  /\ Len(after) = Len(before) - Cardinality(gone)
  /\ \A i \in DOMAIN before \ gone :
       after[i - Cardinality({j \in gone : j < i})] = before[i]

DeletesExactly(id) ==
  /\ ExactlyRemoves(walls', walls, {i \in DOMAIN walls : walls[i].id = id})
  /\ ExactlyRemoves(openings', openings,
                    {k \in DOMAIN openings : openings[k].wallId = id})
  /\ rooms' = rooms

\* C17: deleteWall(id) removes the wall with that id and the openings whose
\* wallId is that id, leaves every other wall and opening as it is and does
\* not touch the room list; after the recalcRooms that follows, every wall a
\* room lists is in the wall list.
C17_DeleteWallExact ==
  /\ [][\A id \in WallIds(walls) : DeleteWall(id) => DeletesExactly(id)]_vars
  /\ [][RecalcRooms => RoomWallIds(rooms') \subseteq WallIds(walls')]_vars

\* A wall has been deleted and the rooms are not yet recomputed: a room still
\* lists the wall, and the opening on another wall of the room is still there.
C17_Witness ==
  /\ recalcPending
  /\ ~(RoomWallIds(rooms) \subseteq WallIds(walls))
  /\ Len(openings) = 1
  /\ openings[1].wallId \in RoomWallIds(rooms) \cap WallIds(walls)

(***************************************************************************)
(* Properties of the face tracing                                          *)
(***************************************************************************)
\* The directed half-edges u -> v of a graph: both directions of every edge.
HalfEdges(graph) ==
  UNION {{<<graph[i].key, graph[i].neighbors[k].key>> : k \in DOMAIN graph[i].neighbors} :
           i \in DOMAIN graph}

\* The half-edges along a recorded face, the closing one included.
FaceEdges(cycle) == {<<cycle[i], cycle[(i % Len(cycle)) + 1]>> : i \in DOMAIN cycle}

FacesWith(cycles, e) == {c \in DOMAIN cycles : e \in FaceEdges(cycles[c])}

PartitionedBy(graph, cycles) ==
  /\ \A e \in HalfEdges(graph) : Cardinality(FacesWith(cycles, e)) = 1
  /\ \A a, b \in DOMAIN cycles : FaceEdges(cycles[a]) = FaceEdges(cycles[b]) => a = b

FacesPartition(graph) == PartitionedBy(graph, TracedCycles(graph))

\* C18: after the tracing loop of detectRooms, every directed half-edge of
\* the wall graph belongs to exactly one recorded face, and no face is
\* recorded twice.
C18_FacesPartitionHalfEdges ==
  Len(walls) >= 3 => FacesPartition(buildGraph(walls))

Sign(n) == IF n > 0 THEN 1 ELSE IF n < 0 THEN 0 - 1 ELSE 0

\* The side of the line from a to b that c lies on.
Orient(a, b, c) == Sign((b.x - a.x) * (c.y - a.y) - (b.y - a.y) * (c.x - a.x))

\* p lies on the segment from a to b.
Within(p, a, b) ==
  /\ Orient(a, b, p) = 0
  /\ (p.x - a.x) * (p.x - b.x) <= 0
  /\ (p.y - a.y) * (p.y - b.y) <= 0

ProperCross(a, b, c, d) ==
  /\ Orient(a, b, c) * Orient(a, b, d) < 0
  /\ Orient(c, d, a) * Orient(c, d, b) < 0

\* An endpoint of v lies on w between the ends of w.
EndsInside(w, v) ==
  \E p \in {v.start, v.end} : Within(p, w.start, w.end) /\ p \notin {w.start, w.end}

MeetAtEnds(w, v) ==
  /\ ~ProperCross(w.start, w.end, v.start, v.end)
  /\ ~EndsInside(w, v)
  /\ ~EndsInside(v, w)
  /\ {w.start, w.end} # {v.start, v.end}

\* A drawing of a planar graph: walls of positive length that meet only in
\* common endpoints, every coordinate a multiple of half a metre, so that
\* every region the walls enclose measures more than 0.01 square metres.
ProperlyJoined(ws) ==
  /\ \A i \in DOMAIN ws :
       /\ ws[i].start # ws[i].end
       /\ \A p \in {ws[i].start, ws[i].end} :
            (2 * p.x) % gridSize = 0 /\ (2 * p.y) % gridSize = 0
  /\ \A i, j \in DOMAIN ws : i < j => MeetAtEnds(ws[i], ws[j])

Endpoints(ws) == UNION {{ws[i].start, ws[i].end} : i \in DOMAIN ws}

Joined(ws, S) ==
  S \cup UNION {{ws[i].start, ws[i].end} :
                  i \in {k \in DOMAIN ws : ws[k].start \in S \/ ws[k].end \in S}}

RECURSIVE Grow(_, _)
Grow(ws, S) == IF Joined(ws, S) = S THEN S ELSE Grow(ws, Joined(ws, S))

\* The connected parts of the drawing, as sets of endpoints.
Components(ws) == {Grow(ws, {p}) : p \in Endpoints(ws)}

\* Euler's formula: the number of bounded regions of a planar drawing with
\* E edges, V nodes and C connected parts is E - V + C.
BoundedRegions(ws) ==
  Len(ws) - Cardinality(Endpoints(ws)) + Cardinality(Components(ws))

\* One room for each bounded region, no two of them with the same walls.
OneRoomPerRegion(det, regions) ==
  /\ Len(det) = regions
  /\ \A a, b \in DOMAIN det :
       Range(det[a].wallIds) = Range(det[b].wallIds) => a = b

\* C19: for every wall set, connected or not, with or without dangling
\* walls, the face detectRooms drops is the outer boundary: the rooms it
\* returns are the bounded regions, each exactly once.
C19_OuterFaceExclusionExact ==
  ProperlyJoined(walls) => OneRoomPerRegion(Detected, BoundedRegions(walls))

NodeKeys(graph) == {graph[i].key : i \in DOMAIN graph}

GraphJoined(graph, S) ==
  S \cup UNION {{graph[i].neighbors[k].key : k \in DOMAIN graph[i].neighbors} :
                  i \in {n \in DOMAIN graph : graph[n].key \in S}}

RECURSIVE GraphGrow(_, _)
GraphGrow(graph, S) ==
  IF GraphJoined(graph, S) = S THEN S ELSE GraphGrow(graph, GraphJoined(graph, S))

GraphComponents(graph) == {GraphGrow(graph, {k}) : k \in NodeKeys(graph)}

\* The graph is a forest: it has as many edges as nodes less connected parts.
NoCycle(graph) ==
  Cardinality(HalfEdges(graph))
    = 2 * (Cardinality(NodeKeys(graph)) - Cardinality(GraphComponents(graph)))

NothingFound(graph, det) ==
  /\ TracedCycles(graph) = <<>>
  /\ det = <<>>
  /\ ~recalcPending => rooms = <<>>

OpenGivesNoRoom(graph) == NoCycle(graph) => NothingFound(graph, Detected)

\* C20: for walls whose graph has no cycle, the tracing records no face,
\* detectRooms returns the empty list, and the room list is empty once
\* recalcRooms has run.
C20_OpenNetworkNoRooms == OpenGivesNoRoom(buildGraph(walls))

HasJunction(graph) == \E i \in DOMAIN graph : Len(graph[i].neighbors) >= 3

\* The rooms have been recomputed for a tree of six walls with a junction.
C20_Witness ==
  /\ Len(walls) = 6
  /\ ~recalcPending
  /\ rooms = <<>>
  /\ NoCycle(buildGraph(walls))
  /\ HasJunction(buildGraph(walls))


(***************************************************************************)
(* The survey session: a plan measured by hand is loaded, in which the     *)
(* three walls that meet in one corner end a few pixels apart.             *)
(***************************************************************************)
\* Two triangular rooms on either side of the wall from (100,0) to (100,100).
\* The corner at (100,0) is stored as (97,0) by the left wall, as (100,0) by
\* the shared wall and as (103,0) by the right wall.
DriftSegs ==
  << <<Pt(0, 50), Pt(97, 0)>>, <<Pt(100, 0), Pt(100, 100)>>,
     <<Pt(100, 100), Pt(0, 50)>>, <<Pt(103, 0), Pt(200, 50)>>,
     <<Pt(200, 50), Pt(100, 100)>> >>

DriftPlans ==
  {Arrange(DriftSegs, Rotation(5, k, b), FlipMode(5, m)) :
     k \in 1..5, b \in BOOLEAN, m \in FlipModes}

NextDrift ==
  \/ \E plan \in DriftPlans : LoadState(plan)
  \/ \E id \in RoomIds(rooms) : SelectRoom(id)
  \/ \E id \in RoomIds(rooms) : DeleteRoom(id)
  \/ RecalcRooms

SpecDrift == Init /\ [][NextDrift]_vars

(***************************************************************************)
(* Properties of the node merging of buildGraph                            *)
(***************************************************************************)
RECURSIVE WallKeysFrom(_, _, _)
WallKeysWithBoth(ws, i, a, b) ==
  << <<a.key, b.key>> >> \o WallKeysFrom(b.endpoints, ws, i + 1)

WallKeysWithStart(ws, i, a) ==
  WallKeysWithBoth(ws, i, a, getOrCreateKey(a.endpoints, ws[i].end))

\* startKey and endKey of the walls from the i-th on, as the loop of
\* buildGraph computes them.
WallKeysFrom(endpoints, ws, i) ==
  IF i > Len(ws) THEN <<>>
  ELSE WallKeysWithStart(ws, i, getOrCreateKey(endpoints, ws[i].start))

WallKeys(ws) == WallKeysFrom(<<>>, ws, 1)

\* The wall endpoints as (wall index, 1 for start or 2 for end).
EndpointRefs(ws) == (DOMAIN ws) \X {1, 2}

PointOf(ws, e) == IF e[2] = 1 THEN ws[e[1]].start ELSE ws[e[1]].end

MergedAsDistanceSays(ws, keys, e, f) ==
  /\ distanceSq(PointOf(ws, e), PointOf(ws, f)) > EPSILON * EPSILON
       => keys[e[1]][e[2]] # keys[f[1]][f[2]]
  /\ distanceSq(PointOf(ws, e), PointOf(ws, f)) < EPSILON * EPSILON
       => keys[e[1]][e[2]] = keys[f[1]][f[2]]

MergedByDistance(ws, keys) ==
  \A e, f \in EndpointRefs(ws) : MergedAsDistanceSays(ws, keys, e, f)

\* C21: buildGraph gives two wall endpoints that are farther apart than
\* EPSILON (Euclidean distance) different node keys, and two endpoints that
\* are closer than EPSILON the same node key.
C21_MergedIffWithinEpsilon == MergedByDistance(walls, WallKeys(walls))

\* The endpoints (wall id, point) that were given the key k.
EndsWithKey(ws, keys, k) ==
  {<<ws[i].id, ws[i].start>> : i \in {j \in DOMAIN ws : keys[j][1] = k}}
  \cup {<<ws[i].id, ws[i].end>> : i \in {j \in DOMAIN ws : keys[j][2] = k}}

KeysUsed(keys) == UNION {{keys[i][1], keys[i][2]} : i \in DOMAIN keys}

ClustersWith(ws, keys) == {EndsWithKey(ws, keys, k) : k \in KeysUsed(keys)}

\* The clustering of the wall endpoints into graph nodes.
Clusters(ws) == ClustersWith(ws, WallKeys(ws))

RoomSetsOf(rs) == {Range(rs[i].wallIds) : i \in DOMAIN rs}

\* The rooms detectRooms finds for the walls, as sets of wall ids.
RoomSets(ws) == RoomSetsOf(detectRooms(ws, gridSize, <<>>, FreshIds))

\* The wall list with the walls at i and j exchanged, and with the wall at i
\* stored end first.
Swapped(ws, i, j) ==
  [k \in DOMAIN ws |-> IF k = i THEN ws[j] ELSE IF k = j THEN ws[i] ELSE ws[k]]

Reversed(ws, i) == [ws EXCEPT ![i].start = ws[i].end, ![i].end = ws[i].start]

SameNodesAndRooms(a, b) == Clusters(a) = Clusters(b) /\ RoomSets(a) = RoomSets(b)

\* C22: exchanging two walls of the wall list, or the start and the end of
\* one wall, changes neither the clustering of the endpoints into graph nodes
\* nor the set of rooms detected (as sets of wall ids).
C22_OrderIndependent ==
  \A i, j \in DOMAIN walls :
    /\ SameNodesAndRooms(walls, Swapped(walls, i, j))
    /\ SameNodesAndRooms(walls, Reversed(walls, i))

(***************************************************************************)
(* The tracing session: plans are loaded whose faces are long, or pass     *)
(* through one corner twice.                                               *)
(***************************************************************************)
\* Two triangular rooms that share the corner (100,50) and nothing else.
KnotSegs ==
  << <<Pt(0, 0), Pt(0, 100)>>, <<Pt(0, 100), Pt(100, 50)>>, <<Pt(100, 50), Pt(0, 0)>>,
     <<Pt(100, 50), Pt(200, 0)>>, <<Pt(200, 0), Pt(200, 100)>>,
     <<Pt(200, 100), Pt(100, 50)>> >>

KnotPlans ==
  {Arrange(KnotSegs, Rotation(6, k, b), FlipMode(6, m)) :
     k \in 1..6, b \in BOOLEAN, m \in FlipModes}

\* The corners of a room 10 * k pixels wide and 100 * r high, walked once
\* round from corner 0 at (0,0): k walls along the bottom, r up the right
\* side, k back along the top and one down the left side.
RingCorner(k, r, i) ==
  IF i <= k THEN Pt(10 * i, 0)
  ELSE IF i <= k + r THEN Pt(10 * k, 100 * (i - k))
  ELSE IF i <= 2 * k + r THEN Pt(10 * (2 * k + r - i), 100 * r)
  ELSE Pt(0, 0)

\* One room whose wall is drawn in 2 * k + r + 1 pieces.
RingSegs(k, r) ==
  [i \in 1..(2 * k + r + 1) |-> <<RingCorner(k, r, i - 1), RingCorner(k, r, i)>>]

\* Rooms of 50, 51 and 52 walls.
RingDims == {<<24, 1>>, <<24, 2>>, <<25, 1>>}

\* The walls from the first or the last on, forwards or backwards.
RingArranged(segs) ==
  {Arrange(segs, Rotation(Len(segs), k, b), FlipMode(Len(segs), "none")) :
     k \in {1, Len(segs)}, b \in BOOLEAN}

RingPlans == UNION {RingArranged(RingSegs(d[1], d[2])) : d \in RingDims}

TracePlans == KnotPlans \cup RingPlans

NextTrace ==
  \/ \E plan \in TracePlans : LoadState(plan)
  \/ \E id \in RoomIds(rooms) : SelectRoom(id)
  \/ \E id \in RoomIds(rooms) : DeleteRoom(id)
  \/ RecalcRooms

SpecTrace == Init /\ [][NextTrace]_vars

(***************************************************************************)
(* Properties of traceFace                                                 *)
(***************************************************************************)
NoNodeTwice(path) == \A i, j \in DOMAIN path : path[i] = path[j] => i = j

AllSimple(cycles) == \A c \in DOMAIN cycles : NoNodeTwice(cycles[c])

\* C23: every face detectRooms records is a sequence of pairwise distinct
\* nodes (a trace that comes back to a node other than its start is dropped).
C23_FacesVisitNodesOnce == AllSimple(TracedCycles(buildGraph(walls)))

\* traceFace from the half-edge e with no half-edge used yet: it has come to
\* its return, with at most maxSteps passes of the loop behind it.
TraceEnds(graph, e, res) ==
  /\ res.done
  /\ Len(res.path) <= maxSteps + 1
  /\ Cardinality(res.used) <= maxSteps
  /\ res.ok => Len(res.path) <= maxSteps

AllTracesEnd(graph) ==
  \A e \in HalfEdges(graph) : TraceEnds(graph, e, traceFace(graph, e[1], e[2], {}))

FacesWithinBound(cycles) == \A c \in DOMAIN cycles : Len(cycles[c]) <= maxSteps

\* C26: every face trace comes to its return within maxSteps (50) passes, as
\* a closed face or as no face, and no recorded face has more than maxSteps
\* nodes: a trace that has not closed by then is dropped.
C26_TraceWithinStepBound ==
  /\ AllTracesEnd(buildGraph(walls))
  /\ FacesWithinBound(TracedCycles(buildGraph(walls)))

\* A closed ring of more than maxSteps walls is loaded and its trace has been
\* dropped: no room is detected.
C26_Witness ==
  /\ Len(walls) > maxSteps
  /\ \A i \in DOMAIN walls : walls[i].end = walls[(i % Len(walls)) + 1].start
                             \/ walls[i].start = walls[(i % Len(walls)) + 1].end
  /\ TracedCycles(buildGraph(walls)) = <<>>
  /\ rooms = <<>>

(***************************************************************************)
(* Properties of the splits of one addWall                                 *)
(***************************************************************************)
\* 1 if the point touches the interior of a wall of the list, else 0.
SplitCount(p, geo) == IF FirstTouched(p, geo) # 0 THEN 1 ELSE 0

\* The splits one addWall of the segment makes: one for the start if it
\* touches a wall, one for the end if it touches a wall of the list the first
\* split left.
SplitsOf(seg, ws) ==
  SplitCount(seg[1], Geo(ws)) + SplitCount(seg[2], CutFirstTouched(Geo(ws), seg[1]))

\* Wall i of the list is the one the end of the segment splits only if the end
\* touches it and touches no earlier wall that the start has left whole.
MayBeCutByEnd(seg, ws, i) ==
  /\ Touches(seg[2], ws[i])
  /\ \A j \in 1..(i - 1) : Touches(seg[2], ws[j]) => j = FirstTouched(seg[1], ws)

OneSplitPerEndpoint(seg, ws, added) ==
  /\ Len(added) = Len(ws) + 1 + SplitsOf(seg, ws)
  /\ Len(added) <= Len(ws) + 3
  /\ Cardinality(WallIds(ws) \ WallIds(added)) <= SplitsOf(seg, ws)
  /\ \A i \in DOMAIN ws :
       ws[i].id \notin WallIds(added)
         => i = FirstTouched(seg[1], ws) \/ MayBeCutByEnd(seg, ws, i)
  /\ (FirstTouched(seg[1], ws) # 0 /\ FirstTouched(seg[1], ws) = FirstTouched(seg[2], ws))
       => /\ Len(added) = Len(ws) + 3
          /\ \A j \in 1..(Len(added) - 1) :
               added[j].id \notin WallIds(ws) => ~Touches(seg[2], added[j])

\* C25: one addWall splits, for each endpoint of the new wall, only the first
\* wall of the list the endpoint touches; the wall count grows by at most 3,
\* and the second endpoint is tested on the list the first split has left.
C25_OneSplitPerEndpoint ==
  \A seg \in DrawSegs :
    seg[1] # seg[2] => OneSplitPerEndpoint(seg, walls, Added(seg))

\* A wall has been cut in three by a new wall with both endpoints on it.
C25_Witness ==
  /\ Len(walls) = 4
  /\ walls[4].start = PQ1 /\ walls[4].end = PQ3
  /\ walls[1].start = PA /\ walls[1].end = PQ1
  /\ walls[2].start = PQ1 /\ walls[2].end = PQ3
  /\ walls[3].start = PQ3 /\ walls[3].end = PB

(***************************************************************************)
(* Properties of updateWall                                                *)
(***************************************************************************)
\* The wall after updateWall(id, {start: p}) or updateWall(id, {end: p}): id
\* and constraints are kept, the start is the given one or the previous one,
\* and without constraints so is the end.
TargetUpdated(w, part, p, out) ==
  /\ out.id = w.id
  /\ out.constraints = w.constraints
  /\ out.start = (IF part = "start" THEN p ELSE w.start)
  /\ w.constraints = <<>> => out.end = (IF part = "end" THEN p ELSE w.end)

UpdateKeepsFrame(ws, id, part, p, out) ==
  /\ DOMAIN out = DOMAIN ws
  /\ \A i \in DOMAIN ws :
       IF ws[i].id = id THEN TargetUpdated(ws[i], part, p, out[i])
       ELSE out[i] = ws[i]

\* The wall after updateWall(id, {constraints: cs}).
ConstraintsUpdated(w, cs, out) ==
  /\ out.id = w.id
  /\ out.constraints = cs
  /\ out.start = w.start
  /\ cs = <<>> => out.end = w.end

ConstraintUpdateKeepsFrame(ws, id, cs, out) ==
  /\ DOMAIN out = DOMAIN ws
  /\ \A i \in DOMAIN ws :
       IF ws[i].id = id THEN ConstraintsUpdated(ws[i], cs, out[i])
       ELSE out[i] = ws[i]

\* The points the pointer of the session moves to.
UpdatePoints == {d[3] : d \in SolverDrags}

\* The endpoints updated: the start only of a wall whose constraints are
\* horizontal or vertical, which keeps the coordinates of the corrected end
\* whole numbers.
UpdateParts(w) ==
  IF \A k \in DOMAIN w.constraints : w.constraints[k].type \in {"horizontal", "vertical"}
  THEN {"start", "end"}
  ELSE {"end"}

\* The constraint lists the switches of the panel would set for the wall.
PanelLists(w) ==
  {toggleSimpleConstraint(w, type, gridSize) :
     type \in {t \in SimpleTypes : t # "fixedLength" \/ HalfMetresLong(w)
                                   \/ hasConstraint(w.constraints, t)}}
  \cup {toggleRefConstraint(w, type, ref) :
          type \in RefTypes, ref \in findConnectedWalls(w, walls)}

\* C27: updateWall(id, updates) leaves the wall ids and their order as they
\* were and every wall other than id unchanged; of the wall id it keeps the
\* id, sets the start only to the start given (or leaves it), and a wall with
\* constraints has only its end rewritten by the solver.
C27_UpdateWallTouchesOnlyTarget ==
  /\ \A i \in DOMAIN walls : \A part \in UpdateParts(walls[i]) : \A p \in UpdatePoints :
       UpdateKeepsFrame(walls, walls[i].id, part, p,
                        updateWall(walls, walls[i].id, part, p))
  /\ \A i \in DOMAIN walls : \A cs \in PanelLists(walls[i]) :
       ConstraintUpdateKeepsFrame(walls, walls[i].id, cs,
                                  updateWallConstraints(walls, walls[i].id, cs))

\* A drag has moved the end of a wall with constraints, and the solver has
\* put the end elsewhere than the pointer; the other wall is where it was.
C27_Witness ==
  /\ Len(walls) = 2
  /\ walls[1] = CornerWalls(<<>>)[1]
  /\ walls[2].constraints # <<>>
  /\ walls[2].start = Pt(200, 0)
  /\ walls[2].end \notin UpdatePoints \cup {Pt(200, 100)}

(***************************************************************************)
(* The rooms session: a file with a room, or with a wall that ends beside  *)
(* a slanting wall, is opened; walls are drawn across it, selected,        *)
(* constrained, dragged at a corner and deleted, rooms are selected and    *)
(* deleted, and the rooms are recomputed after each change of the walls.   *)
(***************************************************************************)
\* SNAP_RADIUS and GRID_SUBDIVISIONS of the canvas.
SNAP_RADIUS == 12

GRID_SUBDIVISIONS == 10

\* The most walls of the session.
MaxPlanWalls == 7

WallEndpoints(ws) == UNION {{ws[i].start, ws[i].end} : i \in DOMAIN ws}

\* snapToEndpoints(point, walls, SNAP_RADIUS) finds an endpoint.
NearEndpoint(point, ws) ==
  \E e \in WallEndpoints(ws) : distanceSq(point, e) < SNAP_RADIUS * SNAP_RADIUS

\* snapToWallSegment(point, walls, SNAP_RADIUS) finds a projection.
NearSegment(point, ws) ==
  \E i \in DOMAIN ws : pointOnWallInterior(point, ws[i], SNAP_RADIUS).hit

\* The point lies on the interior of a wall: the closest projection is the
\* point itself.
OnSegment(point, ws) ==
  \E i \in DOMAIN ws :
    /\ pointOnWallInterior(point, ws[i], SNAP_RADIUS).hit
    /\ Cross(point, ws[i].start, ws[i].end) = 0

OnGrid(point) ==
  /\ point.x % (gridSize \div GRID_SUBDIVISIONS) = 0
  /\ point.y % (gridSize \div GRID_SUBDIVISIONS) = 0

\* A click of the draw tool on the point is snapped to the point itself:
\* snapToEndpoints(...) || snapToWallSegment(...) || snapToGrid(...).
SnapKeeps(point, ws) ==
  IF point \in WallEndpoints(ws) THEN TRUE
  ELSE IF NearEndpoint(point, ws) THEN FALSE
  ELSE IF NearSegment(point, ws) THEN OnSegment(point, ws)
  ELSE OnGrid(point)

\* The two clicks of the draw tool on the ends of a horizontal or vertical
\* segment (snapEndPoint leaves the end of such a segment where it is) that
\* is not a wall yet.
DrawWall(start, end) ==
  /\ ~recalcPending
  /\ ~\E i \in DOMAIN walls : walls[i].start = start /\ walls[i].end = end
  /\ SnapKeeps(start, walls) /\ SnapKeeps(end, walls)
  /\ distanceSq(start, end) > MinDrawLength * MinDrawLength
  /\ AddWallCommitUpTo(addWall(walls, openings, start, end, FreshIds), MaxPlanWalls)

\* The room of 2 m x 1 m, and the wall that ends on a grid point 4.47 pixels
\* from a slanting wall, drawn before it.
SlantSegs ==
  << <<Pt(110, 0), Pt(110, 50)>>, <<Pt(0, 0), Pt(200, 100)>> >>

RoomPlans ==
  {Arrange(RectSegs(200, 100), Rotation(4, 4, FALSE), FlipMode(4, "none")),
   Arrange(SlantSegs, Rotation(2, 2, FALSE), FlipMode(2, "none"))}

\* The walls drawn: across the room, and from the end of the short wall.
RoomSegs == {<<Pt(100, 0), Pt(100, 100)>>, <<Pt(110, 50), Pt(210, 50)>>}

\* The corners clicked in select mode.
RoomClicks == {Pt(0, 0), Pt(200, 100)}

\* The corner dragged and the grid point the pointer moves to.
RoomDrags == {<<Pt(200, 100), Pt(230, 40)>>}

\* The constraint the session switches, and the wall it refers to.
RoomRefTypes == {"perpendicular"}

RoomRefWalls == {1}

NextRooms ==
  \/ \E plan \in RoomPlans : LoadState(plan)
  \/ \E seg \in RoomSegs : DrawWall(seg[1], seg[2])
  \/ \E p \in RoomClicks : SelectWall(p)
  \/ \E type \in RoomRefTypes : \E ref \in RoomRefWalls : ToggleRefConstraint(type, ref)
  \/ \E part \in {"start", "end"}, m \in RoomDrags : MoveEndpoint(part, m[1], m[2])
  \/ \E id \in WallIds(walls) : DeleteWall(id)
  \/ \E id \in RoomIds(rooms) : SelectRoom(id)
  \/ \E id \in RoomIds(rooms) : DeleteRoom(id)
  \/ RecalcRooms

SpecRooms == Init /\ [][NextRooms]_vars

\* React runs the effect of Index after every render with a new
\* wallFingerprint: a pending recomputation is carried out.  Only RecalcRooms
\* is enabled while a recomputation is pending, so these are its steps.
EffectRuns == recalcPending /\ recalcPending' = FALSE

SpecRoomsFair == SpecRooms /\ WF_recalcPending(EffectRuns)

(***************************************************************************)
(* Properties of the rooms session                                         *)
(***************************************************************************)
RefConstraintValid(w, c, ws) ==
  c.type \in RefTypes => c.refWallId \in WallIds(ws) /\ c.refWallId # w.id

\* C28: every perpendicular or parallel constraint refers to a wall of the
\* wall list other than the constrained wall itself.
C28_ConstraintRefsValid ==
  \A i \in DOMAIN walls : \A k \in DOMAIN walls[i].constraints :
    RefConstraintValid(walls[i], walls[i].constraints[k], walls)

\* After the drag of the endpoint `part` of the wall found at `from`, every
\* endpoint of another wall that was at `from` is where that endpoint is.
DragKeepsJoined(part, from, ci) ==
  \A j \in (DOMAIN walls) \ {ci} : \A e \in {"start", "end"} :
    Connected(from, walls[j][e]) => walls'[j][e] = walls'[ci][part]

\* C29: a drag of a wall endpoint in select mode leaves every other wall
\* endpoint that was at the dragged endpoint when the drag began at the
\* dragged endpoint, with or without constraints on the walls.
C29_DragKeepsCornersJoined ==
  [][\A part \in {"start", "end"}, m \in RoomDrags :
       MoveEndpoint(part, m[1], m[2])
         => DragKeepsJoined(part, m[1], findWallAtPoint(m[1], walls, SelectThreshold))]_vars

\* The draw tool would take the segment as it is.
Drawable(seg) ==
  /\ SnapKeeps(seg[1], walls) /\ SnapKeeps(seg[2], walls)
  /\ ~\E i \in DOMAIN walls : walls[i].start = seg[1] /\ walls[i].end = seg[2]

\* The walls addWall of the segment would leave.
Drawn(seg) == addWall(walls, openings, seg[1], seg[2], FreshIds).walls

\* The walls j and j + 1 of the result are the two halves of a wall of ws
\* that was split at the projection of p.
HalvesOf(ws, added, j, p) ==
  /\ added[j].id \notin WallIds(ws) /\ added[j + 1].id \notin WallIds(ws)
  /\ added[j].end = added[j + 1].start
  /\ \E i \in DOMAIN ws :
       /\ ws[i].start = added[j].start /\ ws[i].end = added[j + 1].end
       /\ Touches(p, ws[i])
       /\ added[j].end = Foot(p, ws[i])

SplitJoinsNewWall(seg, ws, added, keys) ==
  \A e \in {1, 2} : \A j \in 1..(Len(added) - 2) :
    HalvesOf(ws, added, j, seg[e])
      => /\ keys[j][2] = keys[Len(added)][e]
         /\ keys[j + 1][1] = keys[Len(added)][e]

\* C30: when addWall splits a wall at the projection of an endpoint of the new
\* wall, buildGraph gives that endpoint and the split point shared by the two
\* halves the same node.
C30_SplitConnectsNewWall ==
  \A seg \in RoomSegs :
    Drawable(seg) => SplitJoinsNewWall(seg, walls, Drawn(seg), WallKeys(Drawn(seg)))

\* The wall-id lists of the rooms, in the order of the room list.
WallLists(rs) == [i \in DOMAIN rs |-> rs[i].wallIds]

\* a is b with some elements left out.
RECURSIVE IsSubSeq(_, _)
IsSubSeq(a, b) ==
  IF a = <<>> THEN TRUE
  ELSE IF b = <<>> THEN FALSE
  ELSE IF Head(a) = Head(b) THEN IsSubSeq(Tail(a), Tail(b))
  ELSE IsSubSeq(a, Tail(b))

\* The rooms are the faces detectRooms finds in the current walls.
RoomsAsDetected ==
  WallLists(rooms) = WallLists(detectRooms(walls, gridSize, rooms, FreshIds))

\* The rooms are among the faces detectRooms finds in the current walls, in
\* their order, and list walls of the wall list only.
RoomsAmongDetected ==
  /\ IsSubSeq(WallLists(rooms), WallLists(detectRooms(walls, gridSize, rooms, FreshIds)))
  /\ \A i \in DOMAIN rooms : Range(rooms[i].wallIds) \subseteq WallIds(walls)

\* C24 (amended): after every change of the walls recalcRooms runs, and the
\* room list it leaves is the list detectRooms finds in the current walls;
\* until the next change of the walls the list differs from it only by the
\* rooms the user has deleted.
C24_RoomsFollowWallsUntilDeleted ==
  /\ recalcPending ~> (~recalcPending /\ RoomsAsDetected)
  /\ [](~recalcPending => RoomsAmongDetected)

\* C24 as stated: after every change of the walls recalcRooms runs, and
\* whenever no recomputation is pending the room list is the list detectRooms
\* finds in the current walls.
C24_RoomsFollowWalls ==
  /\ recalcPending ~> ~recalcPending
  /\ [](~recalcPending => RoomsAsDetected)

\* The room has been cut in two by a drawn wall and the rooms recomputed.
C24_Witness ==
  /\ ~recalcPending
  /\ Len(walls) = 7
  /\ Len(rooms) = 2
  /\ RoomsAsDetected
====
